---- MODULE Spec2Model ----
(***************************************************************************)
(* Luvacli: the orchestration core of an interactive coding assistant.     *)
(* The module models, from the sources, the multi-file edit transaction    *)
(* (multifile.ts), the snapshot/undo store (history part of process.ts),   *)
(* the tool executor and its security checks (tools.ts, security.js), the  *)
(* token budget allocator and the history optimizer (context-optimizer.ts),*)
(* the retry wrapper (retry.ts) and the agent loop (agent.ts).             *)
(*                                                                         *)
(* Each subsystem has its own specification (SpecTx, SpecHist, ...) over   *)
(* its own variables; the variables of the other subsystems stay at their  *)
(* construction values.                                                    *)
(***************************************************************************)
EXTENDS Integers, Sequences, FiniteSets, Bags, TLC

VARIABLES
  fs,            \* the filesystem: file identity -> content, or NoFile
  transactions,  \* multifile.ts: transaction id -> [backups, applied]
  txResult,      \* what the last multiFileEdit / rollbackTransaction returned
  txPre,         \* the filesystem as it was when the last multiFileEdit was called
  fileHistory,   \* history part of process.ts: resolved path -> snapshots, oldest first
  changeLog,     \* the global change log, oldest first
  nextSnapId,    \* the next snapshot id (generateId: ids are taken to be unique)
  histPre,       \* the filesystem before the first write of the behaviour
  writesTo,      \* per file: how many snapshot-taking writes it has had
  undosOf,       \* per file: how many undo calls have been aimed at it
  phase,         \* per file: "writing" until an undo is aimed at it, then "undoing";
                 \* "mixed" once it is written again after an undo
  undoCalls,     \* how many undo calls were made
  undoResult,    \* what the last undoLastChange returned
  processes,     \* process.ts: the registry of background processes, by id
  toolCache,     \* tools.ts: cache key -> cached result of a read-only tool
  toolCall,      \* the last executeTool call: its name, arguments, result and effects
  toolCalls,     \* how many executeTool calls were made
  ctxRun,        \* context-optimizer.ts: a buildSmartContext call, its input and result
  optRun,        \* context-optimizer.ts: an optimizeHistory call, its input and result
  retryRun,      \* retry.ts: a withRetry call in progress or settled
  agentRun,      \* agent.ts: a runAgentMode call in progress or returned
  stepRun,       \* agent.ts: an executeStep call in progress or settled
  specRun,       \* the spec workflow: the active spec and the last /spec command
  replRun,       \* index.ts: the interactive loop of the session driver
  chatRun,       \* index.ts: a chat turn and its calls to the remote model
  depRun,        \* dependency-graph.js: a getDependencies / getDependents call
  watchRun,      \* the file watcher: its queue, its timer, its flushes and the index
  convRun,       \* index.ts: the main conversation history and the turn in progress
  pathRun,       \* security.js: a checkPath / checkFileWrite call, its path and result
  procRun,       \* process.ts: one background process, its child's events and stopProcess
  debRun         \* the clock of the watcher's debounce timer, in ticks

txVars == <<transactions, txResult, txPre>>
histVars == <<fileHistory, changeLog, nextSnapId>>
histGhost == <<histPre, writesTo, undosOf, phase, undoCalls, undoResult>>
toolVars == <<processes, toolCache, toolCall, toolCalls>>
callVars == <<ctxRun, optRun, retryRun, agentRun>>
lateVars == <<watchRun, convRun, pathRun, procRun, debRun>>
moreVars == <<stepRun, specRun, replRun, chatRun, depRun, lateVars>>
vars == <<fs, txVars, histVars, histGhost, toolVars, callVars, moreVars>>

-----------------------------------------------------------------------------
(* Strings are sequences of characters, so that prefix tests, substring     *)
(* tests and replacement are computed and not assumed.                      *)

\* Absent values are one-symbol sequences whose symbol is no character of any
\* text or path, so that they compare with strings and equal none of them.
NoFile == <<"NoFile">>
Undefined == <<"undefined">>
Null == <<"null">>

\* o occurs in c at offset i (0-based), as String.prototype.includes sees it.
OccursAt(c, o, i) ==
  /\ i + Len(o) <= Len(c)
  /\ \A j \in 1..Len(o) : c[i + j] = o[j]

Includes(c, o) == \E i \in 0..Len(c) : OccursAt(c, o, i)

IndexOf(c, o) == CHOOSE i \in 0..Len(c) :
  /\ OccursAt(c, o, i)
  /\ \A j \in 0..(i - 1) : ~OccursAt(c, o, j)

\* String.prototype.replace with a string pattern: the first occurrence only.
Replace(c, o, n) ==
  IF ~Includes(c, o) THEN c
  ELSE LET i == IndexOf(c, o)
       IN SubSeq(c, 1, i) \o n \o SubSeq(c, i + Len(o) + 1, Len(c))

StartsWith(s, p) == Len(p) <= Len(s) /\ SubSeq(s, 1, Len(p)) = p

-----------------------------------------------------------------------------
(* Paths.  A path is a string; "/" separates its segments.                  *)

Slash == "/"
Dot == "."

RECURSIVE SplitFrom(_, _, _)
\* the segments of p from position i on, cur being the segment read so far
SplitFrom(p, i, cur) ==
  IF i > Len(p) THEN <<cur>>
  ELSE IF p[i] = Slash THEN <<cur>> \o SplitFrom(p, i + 1, <<>>)
  ELSE SplitFrom(p, i + 1, Append(cur, p[i]))

Split(p) == SplitFrom(p, 1, <<>>)

RECURSIVE NormalizeSegs(_, _)
\* resolve "", "." and ".." segments of an absolute path (".." at the root stays at the root)
NormalizeSegs(segs, acc) ==
  IF segs = <<>> THEN acc
  ELSE LET s == Head(segs)
       IN IF s = <<>> \/ s = <<Dot>> THEN NormalizeSegs(Tail(segs), acc)
          ELSE IF s = <<Dot, Dot>>
               THEN NormalizeSegs(Tail(segs),
                      IF acc = <<>> THEN acc ELSE SubSeq(acc, 1, Len(acc) - 1))
          ELSE NormalizeSegs(Tail(segs), Append(acc, s))

RECURSIVE JoinAbs(_)
JoinAbs(segs) ==
  IF segs = <<>> THEN <<>>
  ELSE <<Slash>> \o Head(segs) \o JoinAbs(Tail(segs))

\* path.normalize of an absolute path
normalize(p) ==
  LET segs == NormalizeSegs(Split(p), <<>>)
  IN IF segs = <<>> THEN <<Slash>> ELSE JoinAbs(segs)

isAbsolute(p) == Len(p) > 0 /\ p[1] = Slash

\* process.cwd(): the project root
cwd == <<"/", "w">>

\* path.resolve(base, p): absolute and normalized
pathResolve(base, p) ==
  IF isAbsolute(p) THEN normalize(p) ELSE normalize(base \o <<Slash>> \o p)

\* resolvePath of multifile.ts and tools.ts: an absolute path is returned as
\* written, not normalized
resolvePathOf(filePath) ==
  IF isAbsolute(filePath) THEN filePath ELSE pathResolve(cwd, filePath)

P_a == <<"a">>
P_b == <<"b">>
P_absA == <<"/", "w", "/", ".", "/", "a">>
P_up == <<".", ".", "/", "x">>
P_sib == <<"/", "w", "2", "/", "a">>
P_sys == <<"/", "e", "/", "p">>
P_dd == <<"a", ".", ".", "b">>
P_cwd == <<".">>

\* every path string a tool call may carry in this model
RawPaths == {P_a, P_b, P_absA, P_up, P_sib, P_sys, P_dd, P_cwd}

\* resolvePath and the file a path string names for the operating system,
\* tabulated once over the path strings of the model
ResolveTab == [p \in RawPaths |-> resolvePathOf(p)]

PathStrings == RawPaths \cup {ResolveTab[p] : p \in RawPaths}
                        \cup {normalize(ResolveTab[p]) : p \in RawPaths}

FileTab == [p \in PathStrings |-> normalize(p)]

\* path.resolve(p) against the working directory, tabulated
PathResolveTab == [p \in PathStrings |-> pathResolve(cwd, p)]

resolvePath(filePath) == ResolveTab[filePath]

FileOf(p) == FileTab[p]

Files == {FileOf(resolvePath(p)) : p \in RawPaths}

\* file contents
Text == {<<>>, <<"x">>, <<"x", "y">>}

FsStates == [Files -> Text \cup {NoFile}]

exists(fsys, p) == fsys[FileOf(p)] # NoFile

-----------------------------------------------------------------------------
(* The state of each subsystem after construction.                          *)

TxIdle ==
  /\ transactions = <<>>
  /\ txResult = [op |-> "none"]
  /\ txPre = fs

HistIdle ==
  /\ fileHistory = [f \in Files |-> <<>>]
  /\ changeLog = <<>>
  /\ nextSnapId = 1
  /\ histPre = fs
  /\ writesTo = [f \in Files |-> 0]
  /\ undosOf = [f \in Files |-> 0]
  /\ phase = [f \in Files |-> "writing"]
  /\ undoCalls = 0
  /\ undoResult = [op |-> "none"]

NoCall == [name |-> "none"]

ToolIdle ==
  /\ processes = <<>>
  /\ toolCache = <<>>
  /\ toolCall = NoCall
  /\ toolCalls = 0

NoRun == [pc |-> "idle"]

CtxIdle == ctxRun = NoRun
OptIdle == optRun = NoRun
RetryIdle == retryRun = NoRun
AgentIdle == agentRun = NoRun
CallsIdle == CtxIdle /\ OptIdle /\ RetryIdle /\ AgentIdle

LateIdle ==
  /\ watchRun = NoRun /\ convRun = NoRun /\ pathRun = NoRun /\ procRun = NoRun
  /\ debRun = NoRun

MoreIdle ==
  /\ stepRun = NoRun
  /\ specRun = NoRun
  /\ replRun = NoRun
  /\ chatRun = NoRun
  /\ depRun = NoRun /\ LateIdle

-----------------------------------------------------------------------------
(* security.js: the security checks                                         *)

\* DANGEROUS_COMMANDS and WARNING_COMMANDS: a command is a sequence of words;
\* a pattern matches when its words occur in the command, in order and adjacent
DANGEROUS_COMMANDS == {<<"sudo">>, <<"rm", "-rf", "/">>, <<"shutdown">>}
WARNING_COMMANDS == {<<"npm", "publish">>, <<"git", "reset", "--hard">>}

\* FORBIDDEN_PATHS: prefixes of system directories
FORBIDDEN_PATHS == {<<"/", "e", "/">>}

checkCommand(command) ==
  IF \E pattern \in DANGEROUS_COMMANDS : Includes(command, pattern)
  THEN [allowed |-> FALSE, reason |-> "dangerous command", warning |-> FALSE]
  ELSE IF \E pattern \in WARNING_COMMANDS : Includes(command, pattern)
  THEN [allowed |-> TRUE, reason |-> "", warning |-> TRUE]
  ELSE [allowed |-> TRUE, reason |-> "", warning |-> FALSE]

checkPathOf(targetPath) ==
  LET absolutePath == IF isAbsolute(targetPath) THEN targetPath
                      ELSE pathResolve(cwd, targetPath)
      normalizedPath == normalize(absolutePath)
      normalizedCwd == normalize(cwd)
  IN IF ~StartsWith(normalizedPath, normalizedCwd)
     THEN [allowed |-> FALSE, reason |-> "outside cwd", warning |-> FALSE]
     ELSE IF \E pattern \in FORBIDDEN_PATHS : StartsWith(normalizedPath, pattern)
     THEN [allowed |-> FALSE, reason |-> "forbidden path", warning |-> FALSE]
     ELSE IF Includes(targetPath, <<Dot, Dot>>)
             /\ ~StartsWith(pathResolve(cwd, targetPath), normalizedCwd)
     THEN [allowed |-> FALSE, reason |-> "path traversal", warning |-> FALSE]
     ELSE [allowed |-> TRUE, reason |-> "", warning |-> FALSE]

CheckPathTab == [p \in RawPaths |-> checkPathOf(p)]

checkPath(targetPath) == CheckPathTab[targetPath]

\* path.basename
basename(p) == LET segs == Split(p) IN segs[Len(segs)]

criticalFiles == {<<".", "e", "n", "v">>}

BasenameTab == [p \in RawPaths |-> basename(p)]

checkFileWrite(filePath) ==
  LET pathCheck == checkPath(filePath)
  IN IF ~pathCheck.allowed THEN pathCheck
     ELSE IF BasenameTab[filePath] \in criticalFiles
     THEN [allowed |-> TRUE, reason |-> "", warning |-> TRUE]
     ELSE [allowed |-> TRUE, reason |-> "", warning |-> FALSE]

checkFileDelete(filePath) ==
  LET pathCheck == checkPath(filePath)
  IN IF ~pathCheck.allowed THEN pathCheck
     ELSE [allowed |-> TRUE, reason |-> "", warning |-> FALSE]

-----------------------------------------------------------------------------
(* history part of process.ts: snapshots and undo                           *)

MAX_HISTORY_PER_FILE == 50
MAX_CHANGE_LOG == 100

\* The filesystem and the module-level stores the tools read and change, as
\* one value w
World == [fs |-> fs, fileHistory |-> fileHistory, changeLog |-> changeLog,
          nextSnapId |-> nextSnapId, transactions |-> transactions,
          processes |-> processes, toolCache |-> toolCache]

\* a push that leaves a full list as it is: the newest element is dropped
pushDroppingNewest(list, x, bound) ==
  IF Len(list) >= bound THEN list ELSE Append(list, x)

\* Array.prototype.push followed by shift() when the bound is exceeded
pushBounded(list, x, bound) ==
  LET pushed == Append(list, x)
  IN IF Len(pushed) > bound THEN Tail(pushed) ELSE pushed

takeSnapshot(w, filePath) ==
  LET resolved == PathResolveTab[filePath]
      snapshot == [id |-> w.nextSnapId, path |-> resolved,
                   content |-> IF w.fs[FileOf(resolved)] # NoFile
                               THEN w.fs[FileOf(resolved)] ELSE Null]
  IN [w EXCEPT
        !.fileHistory[resolved] = pushBounded(@, snapshot, MAX_HISTORY_PER_FILE),
        !.changeLog = pushBounded(@, snapshot, MAX_CHANGE_LOG),
        !.nextSnapId = @ + 1]

\* the try block of undoLastChange: delete the file or write the content back
restoreContent(fsys, snapshot) ==
  IF snapshot.content = Null
  THEN [fsys EXCEPT ![FileOf(snapshot.path)] = NoFile]
  ELSE [fsys EXCEPT ![FileOf(snapshot.path)] = snapshot.content]

\* Array.prototype.splice(idx, 1) at the first element with the id
RemoveId(list, id) ==
  IF \E k \in 1..Len(list) : list[k].id = id
  THEN LET idx == CHOOSE k \in 1..Len(list) :
                    list[k].id = id /\ \A j \in 1..(k - 1) : list[j].id # id
       IN SubSeq(list, 1, idx - 1) \o SubSeq(list, idx + 1, Len(list))
  ELSE list

Front(list) == SubSeq(list, 1, Len(list) - 1)
Last(list) == list[Len(list)]

\* undoLastChange(filePath?): ioFails says whether the write or unlink throws.
\* The result is [w, success, target]; target is the file the call was aimed at.
undoLastChange(w, filePath, ioFails) ==
  IF filePath # Undefined
  THEN LET resolved == PathResolveTab[filePath]
           history == w.fileHistory[resolved]
       IN IF history = <<>>
          THEN [w |-> w, success |-> FALSE, target |-> FileOf(resolved)]
          ELSE LET lastSnapshot == Last(history)
               IN IF ioFails
                  THEN \* popped, then pushed back by the catch block
                       [w |-> w, success |-> FALSE, target |-> FileOf(resolved)]
                  ELSE [w |-> [w EXCEPT !.fileHistory[resolved] = Front(history),
                                        !.fs = restoreContent(@, lastSnapshot)],
                        success |-> TRUE, target |-> FileOf(resolved)]
  ELSE IF w.changeLog = <<>>
       THEN [w |-> w, success |-> FALSE, target |-> Null]
       ELSE LET lastSnapshot == Last(w.changeLog)
                popped == [w EXCEPT
                             !.changeLog = Front(@),
                             !.fileHistory[lastSnapshot.path] =
                                RemoveId(@, lastSnapshot.id)]
            IN IF ioFails
               THEN \* the catch block pushes the snapshot back onto the change log only
                    [w |-> [popped EXCEPT !.changeLog = Append(@, lastSnapshot)],
                     success |-> FALSE, target |-> FileOf(lastSnapshot.path)]
               ELSE [w |-> [popped EXCEPT !.fs = restoreContent(@, lastSnapshot)],
                     success |-> TRUE, target |-> FileOf(lastSnapshot.path)]

\* writeFile of tools.ts: the security check, the snapshot, then the write
writeFile(w, filePath, content) ==
  LET securityCheck == checkFileWrite(filePath)
  IN IF ~securityCheck.allowed
     THEN [w |-> w, result |-> "denied", reason |-> securityCheck.reason]
     ELSE LET resolved == resolvePath(filePath)
              snapped == takeSnapshot(w, resolved)
          IN [w |-> [snapped EXCEPT !.fs[FileOf(resolved)] = content],
              result |-> "ok", reason |-> ""]

MaxSnapshots == 3
MaxUndoCalls == 3

HistPaths == {P_a, P_b, P_absA}
HistFiles == {FileOf(resolvePath(p)) : p \in HistPaths}
WriteTexts == {<<"x">>, <<"x", "y">>}

InitHist ==
  /\ fs \in {f \in FsStates : \A x \in Files \ HistFiles : f[x] = NoFile}
  /\ HistIdle
  /\ TxIdle
  /\ ToolIdle
  /\ CallsIdle
  /\ MoreIdle

SetWorld(w) ==
  /\ fs' = w.fs
  /\ fileHistory' = w.fileHistory
  /\ changeLog' = w.changeLog
  /\ nextSnapId' = w.nextSnapId
  /\ transactions' = w.transactions
  /\ processes' = w.processes
  /\ toolCache' = w.toolCache

\* the write_file tool
WriteFile ==
  /\ nextSnapId <= MaxSnapshots
  /\ \E p \in HistPaths, content \in WriteTexts :
       LET r == writeFile(World, p, content)
       IN /\ r.result = "ok"
          /\ SetWorld(r.w)
          /\ writesTo' = [writesTo EXCEPT ![FileOf(resolvePath(p))] = @ + 1]
          /\ phase' = [phase EXCEPT ![FileOf(resolvePath(p))] =
                          IF @ = "writing" THEN @ ELSE "mixed"]
  /\ UNCHANGED <<txResult, txPre, toolCall, toolCalls>>
  /\ UNCHANGED <<histPre, undosOf, undoCalls, undoResult, callVars, moreVars>>

\* the undo tool: undoCmd(args.file), with a file or without
Undo ==
  /\ undoCalls < MaxUndoCalls
  /\ \E p \in HistPaths \cup {Undefined} :
       LET r == undoLastChange(World, p, FALSE)
       IN /\ SetWorld(r.w)
          /\ undosOf' = IF r.target = Null THEN undosOf
                        ELSE [undosOf EXCEPT ![r.target] = @ + 1]
          /\ phase' = IF r.target = Null THEN phase
                      ELSE [phase EXCEPT ![r.target] =
                              IF @ = "writing" THEN "undoing" ELSE @]
          /\ undoResult' = [op |-> "undo", success |-> r.success, target |-> r.target,
                            withPath |-> p # Undefined, ioFailed |-> FALSE]
  /\ undoCalls' = undoCalls + 1
  /\ UNCHANGED <<txResult, txPre, toolCall, toolCalls>>
  /\ UNCHANGED <<histPre, writesTo, callVars, moreVars>>

\* the snapshot an undoLastChange call would take, as a list of at most one
undoSnapshot(w, filePath) ==
  IF filePath # Undefined
  THEN IF w.fileHistory[PathResolveTab[filePath]] = <<>> THEN <<>>
       ELSE <<Last(w.fileHistory[PathResolveTab[filePath]])>>
  ELSE IF w.changeLog = <<>> THEN <<>> ELSE <<Last(w.changeLog)>>

\* the undo tool when the write or the unlink of the restore throws: there is
\* a snapshot to restore and the restore does call the filesystem
UndoFailing ==
  /\ undoCalls < MaxUndoCalls
  /\ \E p \in HistPaths \cup {Undefined} :
       /\ \E snap \in {undoSnapshot(World, p)} :
             /\ snap # <<>>
             /\ snap[1].content # Null \/ fs[FileOf(snap[1].path)] # NoFile
       /\ \E r \in {undoLastChange(World, p, TRUE)} :
             /\ SetWorld(r.w)
             /\ phase' = [phase EXCEPT ![r.target] = "mixed"]
             /\ undoResult' = [op |-> "undo", success |-> r.success,
                               target |-> r.target, withPath |-> p # Undefined,
                               ioFailed |-> TRUE]
  /\ undoCalls' = undoCalls + 1
  /\ UNCHANGED <<txResult, txPre, toolCall, toolCalls>>
  /\ UNCHANGED <<histPre, writesTo, undosOf, callVars, moreVars>>

NextHist == WriteFile \/ Undo \/ UndoFailing

SpecHist == InitHist /\ [][NextHist]_vars

-----------------------------------------------------------------------------
(* multifile.ts: edit transactions                                          *)

MaxEdits == 2

TxPaths == {P_a, P_b, P_absA}

\* the texts the edits of the model carry
CreateTexts == {Undefined, <<"x">>}
ModifyTexts == {<<>>, <<"x", "y">>}
OldTexts == {<<>>, <<"x">>, <<"y">>}
NewTexts == {<<"y">>}

\* FileEdit values: a create, a whole-content modify, a replace modify, a delete
FileEdit ==
  [path : TxPaths, type : {"create"}, content : CreateTexts,
   oldText : {Undefined}, newText : {Undefined}]
  \cup
  [path : TxPaths, type : {"modify"}, content : ModifyTexts,
   oldText : {Undefined}, newText : {Undefined}]
  \cup
  [path : TxPaths, type : {"modify"}, content : {Undefined},
   oldText : OldTexts, newText : NewTexts]
  \cup
  [path : TxPaths, type : {"delete"}, content : {Undefined},
   oldText : {Undefined}, newText : {Undefined}]

EditLists == UNION {[1..n -> FileEdit] : n \in 1..MaxEdits}

\* createTransaction: the backups, keyed by resolved path string
createBackups(edits, fsys) ==
  [r \in {resolvePath(edits[k].path) : k \in 1..Len(edits)} |->
     IF exists(fsys, r) THEN fsys[FileOf(r)] ELSE Null]

\* one iteration of applyTransaction's loop body: the edit throws, or the
\* filesystem after it
editThrows(edit, fsys) ==
  LET r == resolvePath(edit.path)
  IN /\ edit.type = "modify"
     /\ \/ ~exists(fsys, r)
        \/ /\ edit.content = Undefined
           /\ edit.oldText # Undefined /\ edit.oldText # <<>>
           /\ edit.newText # Undefined
           /\ ~Includes(fsys[FileOf(r)], edit.oldText)

applyEdit(edit, fsys) ==
  LET r == resolvePath(edit.path)
      f == FileOf(r)
  IN CASE edit.type = "create" ->
            [fsys EXCEPT ![f] = IF edit.content = Undefined THEN <<>> ELSE edit.content]
       [] edit.type = "modify" ->
            IF edit.content # Undefined
            THEN [fsys EXCEPT ![f] = edit.content]
            ELSE IF edit.oldText # Undefined /\ edit.oldText # <<>> /\ edit.newText # Undefined
                 THEN [fsys EXCEPT ![f] = Replace(fsys[f], edit.oldText, edit.newText)]
                 ELSE fsys
       [] edit.type = "delete" -> [fsys EXCEPT ![f] = NoFile]
       [] OTHER -> fsys

\* the catch block of applyTransaction: restore the backup of one applied path
restoreBackupMissingDelete(fsys, backups, appliedPath) ==
  LET backup == backups[appliedPath]
  IN IF backup = Null THEN fsys
     ELSE [fsys EXCEPT ![FileOf(appliedPath)] = backup]

restoreBackup(fsys, backups, appliedPath) ==
  LET backup == backups[appliedPath]
  IN IF backup = Null
     THEN [fsys EXCEPT ![FileOf(appliedPath)] = NoFile]
     ELSE [fsys EXCEPT ![FileOf(appliedPath)] = backup]

RECURSIVE rollbackApplied(_, _, _)
rollbackApplied(fsys, backups, appliedPaths) ==
  IF appliedPaths = <<>> THEN fsys
  ELSE rollbackApplied(restoreBackup(fsys, backups, Head(appliedPaths)),
                       backups, Tail(appliedPaths))

RECURSIVE applyFrom(_, _, _, _, _)
\* applyTransaction from edit k on: [success, fs, failedAt, appliedPaths], and
\* atThrow, the filesystem as the failing edit found it (fs when none failed)
applyFrom(edits, backups, k, fsys, appliedPaths) ==
  IF k > Len(edits)
  THEN [success |-> TRUE, fs |-> fsys, failedAt |-> 0, appliedPaths |-> appliedPaths,
        atThrow |-> fsys]
  ELSE IF editThrows(edits[k], fsys)
       THEN [success |-> FALSE,
             fs |-> rollbackApplied(fsys, backups, appliedPaths),
             failedAt |-> k, appliedPaths |-> appliedPaths, atThrow |-> fsys]
       ELSE applyFrom(edits, backups, k + 1, applyEdit(edits[k], fsys),
                      Append(appliedPaths, resolvePath(edits[k].path)))

applyTransaction(edits, backups, fsys) == applyFrom(edits, backups, 1, fsys, <<>>)

TxFiles == {FileOf(resolvePath(p)) : p \in TxPaths}

InitTx ==
  /\ fs \in {f \in FsStates : \A x \in Files \ TxFiles : f[x] = NoFile}
  /\ TxIdle
  /\ HistIdle
  /\ ToolIdle
  /\ CallsIdle
  /\ MoreIdle

\* multiFileEdit: createTransaction, then applyTransaction, in one synchronous call
multiFileEdit(edits) ==
  /\ transactions = <<>>
  /\ LET backups == createBackups(edits, fs)
         res == applyTransaction(edits, backups, fs)
     IN /\ fs' = res.fs
        /\ transactions' = Append(transactions,
                                  [backups |-> backups, applied |-> res.success])
        /\ txResult' = [op |-> "apply", success |-> res.success,
                        failedAt |-> res.failedAt, appliedPaths |-> res.appliedPaths,
                        atThrow |-> res.atThrow, id |-> Len(transactions) + 1]
        /\ txPre' = fs

\* the loop of rollbackTransaction left after its first entry
restoreFirstOnly(fsys, backups, keys) ==
  IF keys = <<>> THEN fsys ELSE restoreBackup(fsys, backups, Head(keys))

RECURSIVE restoreAll(_, _, _)
\* the loop of rollbackTransaction over the backups map (insertion order)
restoreAll(fsys, backups, keys) ==
  IF keys = <<>> THEN fsys
  ELSE restoreAll(restoreBackup(fsys, backups, Head(keys)), backups, Tail(keys))

\* the keys of a backups map in some fixed order (restores of distinct keys
\* naming one file write the same content, so the order does not matter)
RECURSIVE SetToSeq(_)
SetToSeq(S) ==
  IF S = {} THEN <<>>
  ELSE LET x == CHOOSE y \in S : TRUE IN <<x>> \o SetToSeq(S \ {x})

\* rollbackTransaction; the result also records what the call found: whether
\* the id was held and applied, and the filesystem
rollbackTransaction(id) ==
  IF id \notin DOMAIN transactions
  THEN /\ txResult' = [op |-> "rollback", success |-> FALSE, id |-> id,
                       held |-> FALSE, wasApplied |-> FALSE, before |-> fs]
       /\ UNCHANGED <<fs, transactions, txPre>>
  ELSE IF ~transactions[id].applied
  THEN /\ txResult' = [op |-> "rollback", success |-> FALSE, id |-> id,
                       held |-> TRUE, wasApplied |-> FALSE, before |-> fs]
       /\ UNCHANGED <<fs, transactions, txPre>>
  ELSE /\ fs' = restoreAll(fs, transactions[id].backups,
                           SetToSeq(DOMAIN transactions[id].backups))
       /\ transactions' = [transactions EXCEPT ![id].applied = FALSE]
       /\ txResult' = [op |-> "rollback", success |-> TRUE, id |-> id,
                       held |-> TRUE, wasApplied |-> TRUE, before |-> fs]
       /\ UNCHANGED txPre

MultiFileEdit ==
  /\ \E edits \in EditLists : multiFileEdit(edits)
  /\ UNCHANGED <<histVars, histGhost, toolVars, callVars, moreVars>>

RollbackTransaction ==
  /\ \E id \in 1..2 : rollbackTransaction(id)
  /\ UNCHANGED <<histVars, histGhost, toolVars, callVars, moreVars>>

NextTx == MultiFileEdit \/ RollbackTransaction

SpecTx == InitTx /\ [][NextTx]_vars

-----------------------------------------------------------------------------
(* tools.ts: the tool executor                                              *)

MaxToolCalls == 3

\* the commands a call may carry
Cmd_ls == <<"ls">>
Cmd_sudo == <<"sudo", "ls">>
Cmd_publish == <<"npm", "publish">>
Commands == {Cmd_ls, Cmd_sudo, Cmd_publish}

ToolPaths == {P_a, P_up, P_sib}
ListPaths == {P_cwd, P_a}

Call(name, path, content, command, edits) ==
  [name |-> name, path |-> path, content |-> content, command |-> command,
   edits |-> edits]

\* the tool calls of the model: what the model service may request
ToolRequests ==
  {Call(n, p, Undefined, Undefined, <<>>) :
     n \in {"read_file", "delete_file", "create_directory"}, p \in ToolPaths}
  \cup {Call("list_directory", p, Undefined, Undefined, <<>>) : p \in ListPaths}
  \cup {Call(n, p, <<"x">>, Undefined, <<>>) :
     n \in {"write_file", "append_file", "edit_file"}, p \in ToolPaths}
  \cup {Call(n, Undefined, Undefined, c, <<>>) :
     n \in {"run_command", "start_process"}, c \in Commands}
  \cup {Call("multi_file_edit", Undefined, Undefined, Undefined,
             <<[path |-> p, type |-> "create", content |-> <<"x">>,
                oldText |-> Undefined, newText |-> Undefined]>>) : p \in ToolPaths}
  \cup {Call("undo", p, Undefined, Undefined, <<>>) : p \in {Undefined, P_a}}

cacheableTools == {"read_file", "list_directory"}

\* getCacheKey: the tool name and the arguments
getCacheKey(call) == <<call.name, call.path>>

CacheKeys(cache) == {cache[k].key : k \in 1..Len(cache)}

\* getFromCache: the entry under the key, or Null
getFromCache(cache, key) ==
  IF key \in CacheKeys(cache)
  THEN (CHOOSE k \in 1..Len(cache) : cache[k].key = key)
  ELSE 0

Res(kind, data) == [kind |-> kind, data |-> data, cached |-> FALSE]

\* setCache: errors (results starting with the error mark) are not stored
setCache(cache, key, result) ==
  IF result.kind = "error" THEN cache
  ELSE IF key \in CacheKeys(cache)
       THEN [k \in 1..Len(cache) |->
               IF cache[k].key = key THEN [key |-> key, result |-> result]
               ELSE cache[k]]
       ELSE Append(cache, [key |-> key, result |-> result])

Out(w, result, effects) == [w |-> w, result |-> result, effects |-> effects]

Eff(kind, target) == [kind |-> kind, target |-> target]

readFile(w, filePath) ==
  LET resolved == resolvePath(filePath)
  IN IF ~exists(w.fs, resolved) THEN Out(w, Res("error", "not found"), {})
     ELSE Out(w, Res("ok", w.fs[FileOf(resolved)]), {})

\* the entries of the project root, as readdirSync lists them
DirEntries(fsys) == {f \in Files : fsys[f] # NoFile /\ StartsWith(f, cwd \o <<Slash>>)}

listDirectory(w, dirPath) ==
  LET resolved == resolvePath(dirPath)
  IN IF FileOf(resolved) = cwd THEN Out(w, Res("ok", DirEntries(w.fs)), {})
     ELSE IF ~exists(w.fs, resolved) THEN Out(w, Res("missing", "no directory"), {})
     ELSE Out(w, Res("error", "not a directory"), {})

writeFileTool(w, filePath, content) ==
  LET r == writeFile(w, filePath, content)
  IN IF r.result = "denied" THEN Out(w, Res("denied", r.reason), {})
     ELSE Out(r.w, Res("ok", ""), {Eff("write", FileOf(resolvePath(filePath)))})

appendFile(w, filePath, content) ==
  LET securityCheck == checkFileWrite(filePath)
  IN IF ~securityCheck.allowed THEN Out(w, Res("denied", securityCheck.reason), {})
     ELSE LET resolved == resolvePath(filePath)
              f == FileOf(resolved)
              snapped == takeSnapshot(w, resolved)
              old == IF w.fs[f] = NoFile THEN <<>> ELSE w.fs[f]
          IN Out([snapped EXCEPT !.fs[f] = old \o content], Res("ok", ""),
                 {Eff("write", f)})

\* editFile with old_text = the content argument and new_text = "y"
editFile(w, filePath, oldText, newText) ==
  LET securityCheck == checkFileWrite(filePath)
  IN IF ~securityCheck.allowed THEN Out(w, Res("denied", securityCheck.reason), {})
     ELSE LET resolved == resolvePath(filePath)
              f == FileOf(resolved)
          IN IF ~exists(w.fs, resolved) THEN Out(w, Res("error", "not found"), {})
             ELSE IF ~Includes(w.fs[f], oldText)
             THEN Out(w, Res("error", "text not found"), {})
             ELSE Out([takeSnapshot(w, resolved) EXCEPT
                          !.fs[f] = Replace(w.fs[f], oldText, newText)],
                      Res("ok", ""), {Eff("write", f)})

deleteFile(w, filePath) ==
  LET securityCheck == checkFileDelete(filePath)
  IN IF ~securityCheck.allowed THEN Out(w, Res("denied", securityCheck.reason), {})
     ELSE LET resolved == resolvePath(filePath)
              f == FileOf(resolved)
          IN IF ~exists(w.fs, resolved) THEN Out(w, Res("missing", "not found"), {})
             ELSE Out([takeSnapshot(w, resolved) EXCEPT !.fs[f] = NoFile],
                      Res("ok", ""), {Eff("delete", f)})

createDirectory(w, dirPath) ==
  Out(w, Res("ok", ""), {Eff("mkdir", FileOf(resolvePath(dirPath)))})

\* runCommand: the command check, then exec; execFails says whether exec rejects
runCommand(w, command, execFails) ==
  LET securityCheck == checkCommand(command)
  IN IF ~securityCheck.allowed THEN Out(w, Res("denied", securityCheck.reason), {})
     ELSE Out(w, Res(IF execFails THEN "error" ELSE "ok", ""), {Eff("spawn", command)})

\* startProcess: a running process with the same command and directory is
\* reused, otherwise the command is spawned
startProcess(w, command, dir) ==
  IF \E id \in 1..Len(w.processes) :
        /\ w.processes[id].command = command
        /\ w.processes[id].cwd = dir
        /\ w.processes[id].status = "running"
  THEN Out(w, Res("ok", "reused"), {})
  ELSE Out([w EXCEPT !.processes =
              Append(@, [command |-> command, cwd |-> dir, status |-> "running",
                         output |-> <<>>])],
           Res("ok", "started"), {Eff("spawn", command)})

\* multiFileEdit of multifile.ts on w: the files the edits wrote or deleted are
\* the applied paths of a successful transaction
multiFileEditTool(w, edits) ==
  LET backups == createBackups(edits, w.fs)
      res == applyTransaction(edits, backups, w.fs)
  IN Out([w EXCEPT !.fs = res.fs,
                   !.transactions = Append(@, [backups |-> backups,
                                               applied |-> res.success])],
         Res("ok", res.success),
         {Eff("write", f) : f \in {x \in Files : res.fs[x] # w.fs[x]}})

undoCmd(w, filePath) ==
  LET r == undoLastChange(w, filePath, FALSE)
  IN Out(r.w, Res("ok", r.success),
         {Eff("write", f) : f \in {x \in Files : r.w.fs[x] # w.fs[x]}})

\* the switch of executeTool
dispatch(w, call, execFails) ==
  CASE call.name = "read_file" -> readFile(w, call.path)
    [] call.name = "write_file" -> writeFileTool(w, call.path, call.content)
    [] call.name = "append_file" -> appendFile(w, call.path, call.content)
    [] call.name = "list_directory" -> listDirectory(w, call.path)
    [] call.name = "run_command" -> runCommand(w, call.command, execFails)
    [] call.name = "create_directory" -> createDirectory(w, call.path)
    [] call.name = "delete_file" -> deleteFile(w, call.path)
    [] call.name = "edit_file" -> editFile(w, call.path, call.content, <<"y">>)
    [] call.name = "multi_file_edit" -> multiFileEditTool(w, call.edits)
    [] call.name = "undo" -> undoCmd(w, call.path)
    [] call.name = "start_process" -> startProcess(w, call.command, cwd)
    [] OTHER -> Out(w, Res("ok", "unknown tool"), {})

\* the tools after which executeTool calls clearToolCache
clearingTools == {"write_file", "append_file", "delete_file", "edit_file",
                  "multi_file_edit", "rollback_transaction", "undo", "restore"}

\* the tail of executeTool: clearToolCache after a changing tool, setCache after
\* a cacheable one
afterTool(call, r) ==
  LET kept == IF call.name \in clearingTools THEN <<>> ELSE r.w.toolCache
  IN Out([r.w EXCEPT !.toolCache =
            IF call.name \in cacheableTools
            THEN setCache(kept, getCacheKey(call), r.result) ELSE kept],
         r.result, r.effects)

executeTool(w, call, execFails) ==
  LET hit == IF call.name \in cacheableTools
             THEN getFromCache(w.toolCache, getCacheKey(call)) ELSE 0
  IN IF hit # 0
     THEN Out(w, [w.toolCache[hit].result EXCEPT !.cached = TRUE], {})
     ELSE afterTool(call, dispatch(w, call, execFails))

InitTool ==
  /\ fs \in {f \in FsStates :
               /\ \A x \in Files \ {FileOf(resolvePath(P_a))} : f[x] = NoFile
               /\ f[FileOf(resolvePath(P_a))] \in {NoFile, <<"x">>}}
  /\ TxIdle
  /\ HistIdle
  /\ ToolIdle
  /\ CallsIdle
  /\ MoreIdle

\* one executeTool call requested by the model service
ExecuteTool ==
  /\ toolCalls < MaxToolCalls
  /\ \E call \in ToolRequests, execFails \in BOOLEAN :
       /\ execFails => call.name = "run_command"
       /\ \E r \in {executeTool(World, call, execFails)} :
             /\ SetWorld(r.w)
             /\ toolCall' = [name |-> call.name, call |-> call, result |-> r.result,
                             effects |-> r.effects]
  /\ toolCalls' = toolCalls + 1
  /\ UNCHANGED <<txResult, txPre, histGhost, callVars, moreVars>>

NextTool == ExecuteTool

SpecTool == InitTool /\ [][NextTool]_vars

-----------------------------------------------------------------------------
(* context-optimizer.ts: buildSmartContext and optimizeHistory.             *)

MaxItems == 3

\* the priorities getSmartContext gives, and token costs Math.ceil(length / 4)
ItemPriorities == {50, 90, 100}
ItemTokens == {0, 1, 3}
ContextPriority == [priority : ItemPriorities, tokens : ItemTokens]
ItemLists == UNION {[1..n -> ContextPriority] : n \in 0..MaxItems}
Ceilings == {0, 2, 4}

\* one step of the stable sort by (a, b) => b.priority - a.priority
insertByPriority(sorted, item) ==
  LET k == Cardinality({j \in 1..Len(sorted) : sorted[j].priority >= item.priority})
  IN SubSeq(sorted, 1, k) \o <<item>> \o SubSeq(sorted, k + 1, Len(sorted))

RECURSIVE sortByPriority(_)
sortByPriority(items) ==
  IF items = <<>> THEN <<>>
  ELSE insertByPriority(sortByPriority(Front(items)), Last(items))

\* the guard of the loop of buildSmartContext with the budget test dropped
fitsAlways(totalTokens, item, maxTokens) == totalTokens <= maxTokens

\* the guard of the loop of buildSmartContext
fits(totalTokens, item, maxTokens) == totalTokens + item.tokens <= maxTokens

\* a loop that stops evaluating at the first item that does not fit: that
\* item and all after it are excluded
RECURSIVE allocateUntilFull(_, _, _, _)
allocateUntilFull(sorted, k, acc, maxTokens) ==
  IF k > Len(sorted) THEN acc
  ELSE IF acc.excluded = <<>> /\ acc.totalTokens + sorted[k].tokens <= maxTokens
  THEN allocateUntilFull(sorted, k + 1,
                         [acc EXCEPT !.included = Append(@, sorted[k]),
                                     !.totalTokens = @ + sorted[k].tokens],
                         maxTokens)
  ELSE allocateUntilFull(sorted, k + 1,
                         [acc EXCEPT !.excluded = Append(@, sorted[k])], maxTokens)

\* the loop of buildSmartContext from the k-th sorted item on
RECURSIVE allocate(_, _, _, _)
allocate(sorted, k, acc, maxTokens) ==
  IF k > Len(sorted) THEN acc
  ELSE allocate(sorted, k + 1,
                IF fits(acc.totalTokens, sorted[k], maxTokens)
                THEN [acc EXCEPT !.included = Append(@, sorted[k]),
                                 !.totalTokens = @ + sorted[k].tokens]
                ELSE [acc EXCEPT !.excluded = Append(@, sorted[k])],
                maxTokens)

buildSmartContext(items, maxTokens) ==
  allocate(sortByPriority(items), 1,
           [included |-> <<>>, excluded |-> <<>>, totalTokens |-> 0], maxTokens)

Quiet ==
  /\ fs = [f \in Files |-> NoFile]
  /\ TxIdle
  /\ HistIdle
  /\ ToolIdle

quietVars == <<fs, txVars, histVars, histGhost, toolVars>>

InitCtx ==
  /\ Quiet
  /\ ctxRun \in {[pc |-> "called", items |-> items, maxTokens |-> maxTokens] :
                   items \in ItemLists, maxTokens \in Ceilings}
  /\ OptIdle
  /\ RetryIdle
  /\ AgentIdle
  /\ MoreIdle

BuildSmartContext ==
  /\ ctxRun.pc = "called"
  /\ ctxRun' = [pc |-> "returned", items |-> ctxRun.items,
                maxTokens |-> ctxRun.maxTokens,
                result |-> buildSmartContext(ctxRun.items, ctxRun.maxTokens)]
  /\ UNCHANGED <<quietVars, optRun, retryRun, agentRun, moreVars>>

NextCtx == BuildSmartContext

SpecCtx == InitCtx /\ [][NextCtx]_vars

\* optimizeHistory.  A turn is [id, parts]; the id is its position in the input
\* history.  A part is a text of some length or a function call without text.
MaxTurns == 4
MaxTurnChars == 5000
MarkerChars == 15

TextPart(n) == [kind |-> "text", len |-> n]
CallPart == [kind |-> "functionCall", len |-> 0]
TurnParts == {<<TextPart(4)>>, <<TextPart(8)>>, <<TextPart(MaxTurnChars + 1)>>,
              <<CallPart>>, <<TextPart(3), TextPart(4)>>}
Histories ==
  UNION {{[k \in 1..n |-> [id |-> k, parts |-> ps[k]]] : ps \in [1..n -> TurnParts]} :
           n \in 0..MaxTurns}
HistoryCeilings == {0, 2, 3, 2000}

estimateTokens(len) == (len + 3) \div 4

RECURSIVE SumLen(_)
SumLen(parts) == IF parts = <<>> THEN 0 ELSE parts[1].len + SumLen(Tail(parts))

\* the length of the texts of the parts that have one, joined with newlines
getTextFromParts(parts) ==
  LET texts == SelectSeq(parts, LAMBDA p : p.kind = "text" /\ p.len > 0)
  IN IF texts = <<>> THEN 0 ELSE SumLen(texts) + Len(texts) - 1

tokenCount(msg) == estimateTokens(getTextFromParts(msg.parts))

RECURSIVE SumTokenCounts(_)
SumTokenCounts(history) ==
  IF history = <<>> THEN 0 ELSE tokenCount(history[1]) + SumTokenCounts(Tail(history))

\* a loop from the end that also keeps the turn at which the budget is passed
RECURSIVE keepFromPastBudget(_, _, _, _)
keepFromPastBudget(history, i, usedTokens, maxTokens) ==
  IF i = 0 THEN 1
  ELSE IF usedTokens + tokenCount(history[i]) > maxTokens THEN i
  ELSE keepFromPastBudget(history, i - 1, usedTokens + tokenCount(history[i]), maxTokens)

\* the loop from the end: the index of the first turn that is kept
RECURSIVE keepFrom(_, _, _, _)
keepFrom(history, i, usedTokens, maxTokens) ==
  IF i = 0 THEN 1
  ELSE IF usedTokens + tokenCount(history[i]) > maxTokens THEN i + 1
  ELSE keepFrom(history, i - 1, usedTokens + tokenCount(history[i]), maxTokens)

\* a forced turn: each text over the cap is cut to the cap plus the marker
truncateTurn(msg) ==
  IF getTextFromParts(msg.parts) > MaxTurnChars
  THEN [msg EXCEPT !.parts =
          [k \in 1..Len(msg.parts) |->
             IF msg.parts[k].kind = "text" /\ msg.parts[k].len > MaxTurnChars
             THEN TextPart(MaxTurnChars + MarkerChars) ELSE msg.parts[k]]]
  ELSE msg

forceLastTwo(history, optimized) ==
  IF Len(optimized) < 2 /\ Len(history) >= 2
  THEN [k \in 1..2 |-> truncateTurn(history[Len(history) - 2 + k])]
  ELSE optimized

optimizeHistory(history, maxTokens) ==
  IF Len(history) = 0 THEN history
  ELSE IF SumTokenCounts(history) <= maxTokens THEN history
  ELSE forceLastTwo(history,
                    SubSeq(history, keepFrom(history, Len(history), 0, maxTokens),
                           Len(history)))

InitOpt ==
  /\ Quiet
  /\ CtxIdle
  /\ optRun \in {[pc |-> "called", history |-> history, maxTokens |-> maxTokens] :
                   history \in Histories, maxTokens \in HistoryCeilings}
  /\ RetryIdle
  /\ AgentIdle
  /\ MoreIdle

OptimizeHistory ==
  /\ optRun.pc = "called"
  /\ optRun' = [pc |-> "returned", history |-> optRun.history,
                maxTokens |-> optRun.maxTokens,
                result |-> optimizeHistory(optRun.history, optRun.maxTokens)]
  /\ UNCHANGED <<quietVars, ctxRun, retryRun, agentRun, moreVars>>

NextOpt == OptimizeHistory

SpecOpt == InitOpt /\ [][NextOpt]_vars

-----------------------------------------------------------------------------
(* retry.ts: withRetry.  An error is the set of signature texts its message *)
(* contains and the seconds of a "retry in Ns" text in it (0: no such text). *)

MaxRetryLimit == 3

DEFAULT_OPTIONS == [maxRetries |-> 3, baseDelay |-> 5000, maxDelay |-> 60000]
GeminiOptions == [maxRetries |-> 3, baseDelay |-> 5000, maxDelay |-> 120000]
RetryOptions ==
  {[DEFAULT_OPTIONS EXCEPT !.maxRetries = n] : n \in 0..MaxRetryLimit}
  \cup {GeminiOptions}

Err(texts, retryIn) == [texts |-> texts, retryIn |-> retryIn]
NoError == Err({}, 0)
Errors == {Err({"400"}, 0), Err({"429", "quota"}, 0), Err({"429"}, 18),
           Err({"429"}, 75), Err({"503"}, 0), Err({"timeout"}, 0)}

\* extractRetryDelay: the parsed seconds in ms plus the buffer, or null (0)
extractRetryDelay(error) ==
  IF error.retryIn > 0 THEN error.retryIn * 1000 + 1000 ELSE 0

isRateLimitError(error) ==
  error.texts \cap {"429", "Too Many Requests", "quota", "rate limit",
                    "RESOURCE_EXHAUSTED"} # {}

isRetryableError(error) ==
  \/ isRateLimitError(error)
  \/ error.texts \cap {"503", "500", "UNAVAILABLE", "INTERNAL", "timeout",
                       "ECONNRESET", "ETIMEDOUT"} # {}

Min(a, b) == IF a <= b THEN a ELSE b

backoff(opts, attempt) == Min(opts.baseDelay * 2 ^ (attempt - 1), opts.maxDelay)

retryDelay(opts, attempt, error) ==
  IF isRateLimitError(error) /\ extractRetryDelay(error) # 0
  THEN extractRetryDelay(error)
  ELSE backoff(opts, attempt)

\* the test of the catch block without the test of the error
rethrowsWhenExhausted(opts, attempt, error) == attempt > opts.maxRetries

\* the test of the catch block without the test of the attempt
rethrowsWhenNotRetryable(opts, attempt, error) == ~isRetryableError(error)

\* the test of the catch block: the last attempt, or an error not to be retried
rethrows(opts, attempt, error) ==
  attempt > opts.maxRetries \/ ~isRetryableError(error)

\* the catch block, the sleep and the loop header that follows it
afterRejection(r, error) ==
  IF rethrows(r.opts, r.attempt, error)
  THEN [r EXCEPT !.pc = "raised", !.raised = error, !.lastError = error]
  ELSE [r EXCEPT
          !.lastError = error,
          !.observed = Append(@, [attempt |-> r.attempt, error |-> error,
                                  delay |-> retryDelay(r.opts, r.attempt, error)]),
          !.slept = Append(@, retryDelay(r.opts, r.attempt, error)),
          !.attempt = @ + 1,
          !.pc = IF r.attempt + 1 <= r.opts.maxRetries + 1 THEN "running" ELSE "raised",
          !.raised = IF r.attempt + 1 <= r.opts.maxRetries + 1 THEN NoError ELSE error]

InitRetry ==
  /\ Quiet
  /\ CtxIdle
  /\ OptIdle
  /\ retryRun \in {[pc |-> "running", opts |-> opts, attempt |-> 1, calls |-> 0,
                    errors |-> <<>>, observed |-> <<>>, slept |-> <<>>,
                    lastError |-> NoError, raised |-> NoError] : opts \in RetryOptions}
  /\ AgentIdle
  /\ MoreIdle

\* fn() resolves: withRetry returns its value
FnResolves ==
  /\ retryRun.pc = "running"
  /\ retryRun' = [retryRun EXCEPT !.pc = "returned", !.calls = @ + 1]
  /\ UNCHANGED <<quietVars, ctxRun, optRun, agentRun, moreVars>>

\* fn() rejects with an error
FnRejects ==
  /\ retryRun.pc = "running"
  /\ \E error \in Errors :
       retryRun' = afterRejection([retryRun EXCEPT !.calls = @ + 1,
                                                   !.errors = Append(@, error)], error)
  /\ UNCHANGED <<quietVars, ctxRun, optRun, agentRun, moreVars>>

NextRetry == FnResolves \/ FnRejects

SpecRetry == InitRetry /\ [][NextRetry]_vars

-----------------------------------------------------------------------------
(* agent.ts: runAgentMode.  The run is observed at its awaits: createPlan,   *)
(* executeStep and checkAndFix.                                             *)

MaxSteps == 4

DEFAULT_CONFIG == [maxRetries |-> 3, maxTotalRetries |-> 10, autoFix |-> TRUE]
AgentConfigs ==
  {DEFAULT_CONFIG}
  \cup [maxRetries : 1..2, maxTotalRetries : {1, 3}, autoFix : BOOLEAN]

\* a step as createPlan builds it; attempts counts the executeStep calls for it
\* and failedAt is plan.totalRetries as its last failure left it
PendingStep == [status |-> "pending", retries |-> 0, attempts |-> 0, failedAt |-> 0]

\* steps.every(s => s.status === "done" || s.status === "skipped"), with a
\* failed step counted as settled too
allSettled(steps) ==
  \A k \in 1..Len(steps) : steps[k].status \in {"done", "skipped", "failed"}

\* steps.every(s => s.status === "done" || s.status === "skipped")
allDone(steps) ==
  \A k \in 1..Len(steps) : steps[k].status \in {"done", "skipped"}

\* the final check, the completion timestamp and the summary
finalize(r) ==
  [r EXCEPT !.plan.status = IF allDone(r.plan.steps) THEN "done" ELSE "failed",
            !.plan.completedAt = TRUE,
            !.summary = TRUE,
            !.pc = "returned"]

\* the head of the for loop at index i: steps already done are skipped, the
\* next one is set running and executeStep is awaited
RECURSIVE enterLoop(_, _)
enterLoop(r, i) ==
  IF i > Len(r.plan.steps) THEN finalize(r)
  ELSE IF r.plan.steps[i].status \in {"done", "skipped"} THEN enterLoop(r, i + 1)
  ELSE [r EXCEPT !.i = i, !.pc = "step",
                 !.plan.steps[i].status = "running",
                 !.plan.steps[i].attempts = @ + 1]

\* the retry test with the global cap left out
shouldRetryUnderStepCap(step, plan, cfg) == step.retries < cfg.maxRetries

\* the retry test of the catch block
shouldRetry(step, plan, cfg) ==
  step.retries < cfg.maxRetries /\ plan.totalRetries < cfg.maxTotalRetries

\* the abort test with the comparison never true
capNeverReached(plan, cfg) == FALSE

\* the abort test of the catch block: the global cap is used up
capReached(plan, cfg) == plan.totalRetries >= cfg.maxTotalRetries

\* the catch block of the loop once the counters are incremented
afterStepFailure(r) ==
  IF shouldRetry(r.plan.steps[r.i], r.plan, r.cfg)
  THEN enterLoop(r, r.i)
  ELSE IF capReached(r.plan, r.cfg)
       THEN finalize([r EXCEPT !.plan.steps[r.i].status = "failed",
                               !.plan.status = "failed"])
       ELSE enterLoop([r EXCEPT !.plan.steps[r.i].status = "failed"], r.i + 1)

InitAgent ==
  /\ Quiet
  /\ CtxIdle
  /\ OptIdle
  /\ RetryIdle
  /\ MoreIdle
  /\ agentRun \in {[pc |-> "planning", cfg |-> cfg, i |-> 0, summary |-> FALSE,
                    checks |-> 0,
                    plan |-> [steps |-> <<>>, status |-> "planning",
                              totalRetries |-> 0, completedAt |-> FALSE]] :
                     cfg \in AgentConfigs}

\* createPlan resolves with the steps of the plan
PlanCreated ==
  /\ agentRun.pc = "planning"
  /\ \E n \in 0..MaxSteps :
       agentRun' = enterLoop([agentRun EXCEPT
                                !.plan.steps = [k \in 1..n |-> PendingStep],
                                !.plan.status = "executing"], 1)
  /\ UNCHANGED <<quietVars, ctxRun, optRun, retryRun, moreVars>>

\* createPlan throws (no JSON in the answer, or the request failed): the outer
\* catch block
PlanFails ==
  /\ agentRun.pc = "planning"
  /\ agentRun' = [agentRun EXCEPT !.plan.status = "failed", !.pc = "returned"]
  /\ UNCHANGED <<quietVars, ctxRun, optRun, retryRun, moreVars>>

\* a test that sends every completed step to checkAndFix
diagnosticsAfterEveryStep(cfg, i, steps) == cfg.autoFix

\* cfg.autoFix && isLastStep
diagnosticsDue(cfg, i, steps) == cfg.autoFix /\ i = Len(steps)

\* executeStep resolves; checks counts the calls of checkAndFix
StepResolves ==
  /\ agentRun.pc = "step"
  /\ agentRun' =
       IF diagnosticsDue(agentRun.cfg, agentRun.i, agentRun.plan.steps)
       THEN [agentRun EXCEPT !.plan.steps[agentRun.i].status = "done",
                             !.pc = "fixing", !.checks = @ + 1]
       ELSE enterLoop([agentRun EXCEPT !.plan.steps[agentRun.i].status = "done"],
                      agentRun.i + 1)
  /\ UNCHANGED <<quietVars, ctxRun, optRun, retryRun, moreVars>>

\* executeStep throws
StepRejects ==
  /\ agentRun.pc = "step"
  /\ agentRun' =
       afterStepFailure([agentRun EXCEPT
                           !.plan.steps[agentRun.i].retries = @ + 1,
                           !.plan.steps[agentRun.i].failedAt =
                              agentRun.plan.totalRetries + 1,
                           !.plan.totalRetries = @ + 1])
  /\ UNCHANGED <<quietVars, ctxRun, optRun, retryRun, moreVars>>

\* checkAndFix resolves; errors says whether it found and fixed errors
FixSettles ==
  /\ agentRun.pc = "fixing"
  /\ \E errors \in BOOLEAN :
       agentRun' = enterLoop([agentRun EXCEPT
                                !.plan.totalRetries = IF errors THEN @ + 1 ELSE @],
                             agentRun.i + 1)
  /\ UNCHANGED <<quietVars, ctxRun, optRun, retryRun, moreVars>>

NextAgent == PlanCreated \/ PlanFails \/ StepResolves \/ StepRejects \/ FixSettles

SpecAgent == InitAgent /\ [][NextAgent]_vars

-----------------------------------------------------------------------------
(* agent.ts: executeStep, observed each time sendMessageWithRetry settles.  *)

maxIterations == 10
MaxCallsPerResponse == 2

\* the while loop of executeStep at its head, the latest response holding
\* fcs function calls: the tools are executed and their results sent, or the
\* loop is left and runAgentMode marks the step done
stepLoop(r, fcs) ==
  IF r.iterations < maxIterations /\ fcs > 0
  THEN [r EXCEPT !.latestCalls = fcs, !.rounds = @ + 1, !.executed = @ + fcs]
  ELSE [r EXCEPT !.latestCalls = fcs, !.pc = "returned", !.status = "done"]

InitStep ==
  /\ Quiet
  /\ CallsIdle
  /\ stepRun = [pc |-> "awaiting", status |-> "running", iterations |-> 0,
                responses |-> 0, rounds |-> 0, executed |-> 0, latestCalls |-> 0]
  /\ specRun = NoRun
  /\ replRun = NoRun
  /\ chatRun = NoRun
  /\ depRun = NoRun /\ LateIdle

\* the model answers, asking for fcs tool calls
ResponseArrives ==
  /\ stepRun.pc = "awaiting"
  /\ \E fcs \in 0..MaxCallsPerResponse :
       stepRun' = stepLoop([stepRun EXCEPT
                              !.responses = @ + 1,
                              !.iterations = IF stepRun.responses = 0 THEN 0 ELSE @ + 1],
                           fcs)
  /\ UNCHANGED <<quietVars, callVars, specRun, replRun, chatRun, depRun, lateVars>>

\* sendMessageWithRetry rejects: executeStep throws into the catch block of the
\* step, which counts a retry
ResponseFails ==
  /\ stepRun.pc = "awaiting"
  /\ stepRun' = [stepRun EXCEPT !.pc = "threw"]
  /\ UNCHANGED <<quietVars, callVars, specRun, replRun, chatRun, depRun, lateVars>>

NextStep == ResponseArrives \/ ResponseFails

SpecStep == InitStep /\ [][NextStep]_vars

-----------------------------------------------------------------------------
(* The spec workflow: the /spec commands of index.ts on the active spec and  *)
(* its saved copy.  A task is its status; its id is its position.            *)

MaxTasks == 2
MaxPlanSteps == 2

NoSpec == [active |-> FALSE, status |-> "none", requirements |-> 0, design |-> 0,
           tasks |-> <<>>]

\* createSpec
NewSpec == [active |-> TRUE, status |-> "draft", requirements |-> 0, design |-> 0,
            tasks |-> <<>>]

\* what the model answers to a stage prompt: nothing usable (the call or the
\* parse throws), JSON with the key of the stage and n entries, or other JSON
StageAnswers ==
  {[kind |-> "throws", n |-> 0], [kind |-> "other", n |-> 0]}
  \cup {[kind |-> "keyed", n |-> n] : n \in 0..MaxTasks}

\* the plans runAgentMode returns: the steps createPlan got from the model,
\* each done or failed; no step when createPlan threw
AgentPlans ==
  UNION {[1..n -> {"done", "failed"}] : n \in 0..MaxPlanSteps}

\* updateTaskStatus on the saved spec
updateTaskStatus(spec, taskId, status) ==
  IF ~spec.active \/ taskId \notin 1..Len(spec.tasks) THEN spec
  ELSE [spec EXCEPT
          !.tasks[taskId] = status,
          !.status =
             IF \A k \in 1..Len(spec.tasks) :
                   (IF k = taskId THEN status ELSE spec.tasks[k]) \in {"done", "skipped"}
             THEN "done"
             ELSE IF status = "in-progress"
                     \/ \E k \in 1..Len(spec.tasks) :
                           k # taskId /\ spec.tasks[k] = "in-progress"
             THEN "implementing"
             ELSE @]

\* the assignment of generateSpecPhase for an answer that has the key
withStage(spec, stage, n) ==
  CASE stage = "requirements" -> [spec EXCEPT !.requirements = n, !.status = stage]
    [] stage = "design" -> [spec EXCEPT !.design = n, !.status = stage]
    [] stage = "tasks" -> [spec EXCEPT !.tasks = [k \in 1..n |-> "pending"],
                                       !.status = stage]

Cmd(cmd, outcome, r) ==
  [cmd |-> cmd, outcome |-> outcome, mem |-> r.mem, disk |-> r.disk, plan |-> <<>>]

\* generateSpecPhase: the active spec is changed and saved over the saved copy
generateSpecPhase(r, stage, answer) ==
  IF answer.kind = "throws" THEN [r EXCEPT !.last = Cmd(stage, "error", r)]
  ELSE IF answer.kind = "other"
  THEN [r EXCEPT !.disk = r.mem, !.last = Cmd(stage, "saved", r)]
  ELSE [r EXCEPT !.mem = withStage(r.mem, stage, answer.n),
                 !.disk = withStage(r.mem, stage, answer.n),
                 !.last = Cmd(stage, "generated", r)]

\* the guard of a stage command with the prerequisite left out
stageAllowedWhenActive(spec, stage) == spec.active

\* the guard of a stage command
stageAllowed(spec, stage) ==
  CASE stage = "requirements" -> spec.active
    [] stage = "design" -> spec.active /\ spec.requirements # 0
    [] stage = "tasks" -> spec.active /\ spec.design # 0

\* /spec requirements, /spec design, /spec tasks
stageCommand(r, stage, answer) ==
  IF ~stageAllowed(r.mem, stage) THEN [r EXCEPT !.last = Cmd(stage, "rejected", r)]
  ELSE generateSpecPhase(r, stage, answer)

\* the position of the first pending task, 0 if there is none
firstPending(tasks) ==
  IF \E k \in 1..Len(tasks) : tasks[k] = "pending"
  THEN CHOOSE k \in 1..Len(tasks) :
         tasks[k] = "pending" /\ \A j \in 1..(k - 1) : tasks[j] # "pending"
  ELSE 0

\* /spec next: the task is set in-progress, chat runs, and on success the task
\* is set done and the active spec is loaded again
nextCommand(r, chatFails) ==
  IF ~r.mem.active \/ r.mem.tasks = <<>> \/ firstPending(r.mem.tasks) = 0
  THEN [r EXCEPT !.last = Cmd("next", "rejected", r)]
  ELSE IF chatFails
  THEN [r EXCEPT !.disk = updateTaskStatus(@, firstPending(r.mem.tasks), "in-progress"),
                 !.last = Cmd("next", "error", r)]
  ELSE [r EXCEPT
          !.disk = updateTaskStatus(
                     updateTaskStatus(@, firstPending(r.mem.tasks), "in-progress"),
                     firstPending(r.mem.tasks), "done"),
          !.mem = updateTaskStatus(
                    updateTaskStatus(r.disk, firstPending(r.mem.tasks), "in-progress"),
                    firstPending(r.mem.tasks), "done"),
          !.last = Cmd("next", "updated", r)]

\* /spec done <id>, /spec skip <id>
markCommand(r, cmd, taskId, status) ==
  IF ~r.mem.active THEN [r EXCEPT !.last = Cmd(cmd, "rejected", r)]
  ELSE [r EXCEPT !.disk = updateTaskStatus(@, taskId, status),
                 !.mem = updateTaskStatus(r.disk, taskId, status),
                 !.last = Cmd(cmd, "updated", r)]

\* the loop of /spec auto over the steps of the plan, from step k on: step k is
\* written onto the task at index k - 1 of the active spec
RECURSIVE reconcile(_, _, _, _)
reconcile(disk, memTasks, plan, k) ==
  IF k > Len(plan) THEN disk
  ELSE reconcile(IF k <= Len(memTasks)
                 THEN updateTaskStatus(disk, k,
                                       IF plan[k] = "done" THEN "done" ELSE "pending")
                 ELSE disk,
                 memTasks, plan, k + 1)

\* /spec auto: runAgentFromSpec returns the plan of runAgentMode
autoCommand(r, plan) ==
  IF ~r.mem.active \/ r.mem.tasks = <<>> \/ firstPending(r.mem.tasks) = 0
  THEN [r EXCEPT !.last = Cmd("auto", "rejected", r)]
  ELSE [r EXCEPT !.disk = reconcile(@, r.mem.tasks, plan, 1),
                 !.mem = reconcile(r.disk, r.mem.tasks, plan, 1),
                 !.last = [Cmd("auto", "updated", r) EXCEPT !.plan = plan]]

InitFlow ==
  /\ Quiet
  /\ CallsIdle
  /\ stepRun = NoRun
  /\ specRun = [mem |-> NoSpec, disk |-> NoSpec,
                last |-> [cmd |-> "none", outcome |-> "none", mem |-> NoSpec,
                          disk |-> NoSpec, plan |-> <<>>]]
  /\ replRun = NoRun
  /\ chatRun = NoRun
  /\ depRun = NoRun /\ LateIdle

flowFrame == <<quietVars, callVars, stepRun, replRun, chatRun, depRun, lateVars>>

\* /spec new <title>
SpecNew ==
  /\ specRun.mem # NewSpec
  /\ specRun' = [mem |-> NewSpec, disk |-> NewSpec, last |-> Cmd("new", "created", specRun)]
  /\ UNCHANGED flowFrame

SpecStage ==
  /\ \E stage \in {"requirements", "design", "tasks"}, answer \in StageAnswers :
       specRun' = stageCommand(specRun, stage, answer)
  /\ UNCHANGED flowFrame

SpecNext ==
  /\ \E chatFails \in BOOLEAN : specRun' = nextCommand(specRun, chatFails)
  /\ UNCHANGED flowFrame

SpecDone ==
  /\ \E taskId \in 1..(MaxTasks + 1) : specRun' = markCommand(specRun, "done", taskId, "done")
  /\ UNCHANGED flowFrame

SpecSkip ==
  /\ \E taskId \in 1..(MaxTasks + 1) :
       specRun' = markCommand(specRun, "skip", taskId, "skipped")
  /\ UNCHANGED flowFrame

SpecAuto ==
  /\ \E plan \in AgentPlans : specRun' = autoCommand(specRun, plan)
  /\ UNCHANGED flowFrame

NextFlow == SpecNew \/ SpecStage \/ SpecNext \/ SpecDone \/ SpecSkip \/ SpecAuto

SpecFlow == InitFlow /\ [][NextFlow]_vars

-----------------------------------------------------------------------------
\* index.ts: the interactive loop.  ask() issues the prompt; the callback of
\* rl.question handles one line and ends with ask(), or with process.exit for
\* the exit command.

MaxLines == 3

\* the points of a handler at which an operation can fail: inside a try
\* block whose catch prints the message, or outside of any try block
FailurePoints ==
  [ empty    |-> {},                       \* if (!msg) { ask(); return; }
    help     |-> {},
    clear    |-> {"unguarded"},            \* saveHistory: fs.writeFileSync
    cd       |-> {"guarded"},              \* process.chdir, indexCodebase
    si       |-> {"guarded"},              \* initSmartContext
    shell    |-> {"guarded"},              \* execSync, startProcess
    docsNew  |-> {"guarded"},
    mcp      |-> {"guarded"},              \* connectAllServers
    new      |-> {"guarded"},              \* createProject
    testGen  |-> {"guarded"},              \* fs.writeFileSync
    specNew  |-> {"unguarded"},            \* createSpec: mkdirSync, writeFileSync
    specReq  |-> {"guarded"},              \* generateSpecPhase
    specNext |-> {"guarded", "unguarded"}, \* chat; updateTaskStatus before try
    specDone |-> {"unguarded"},            \* updateTaskStatus: writeFileSync
    specSkip |-> {"unguarded"},
    specAuto |-> {"guarded"},              \* runAgentFromSpec
    agent    |-> {"guarded"},              \* runAgentMode
    chat     |-> {"guarded"} ]             \* chat, saveHistory

LineCommands == DOMAIN FailurePoints

\* what the runtime does with the rejected promise of the async callback:
\* it ends the process, or it only reports the rejection and the callback is
\* over without ask()
RejectionOutcomes == {"crashed", "silent"}

\* the callback of rl.question for one line
onLine(r, cmd, failure, rejection) ==
  IF cmd = "exit"
  THEN [r EXCEPT !.pc = "exited", !.cmd = cmd, !.failure = "none"]
  ELSE IF failure = "unguarded"
  THEN [r EXCEPT !.pc = rejection, !.cmd = cmd, !.failure = failure]
  ELSE [r EXCEPT !.pc = "prompt", !.cmd = cmd, !.failure = failure,
                 !.prompts = @ + 1]

InitRepl ==
  /\ Quiet /\ CallsIdle
  /\ stepRun = NoRun /\ specRun = NoRun /\ chatRun = NoRun /\ depRun = NoRun /\ LateIdle
  /\ replRun = [pc |-> "prompt", cmd |-> "none", failure |-> "none", prompts |-> 1]

replFrame == <<quietVars, callVars, stepRun, specRun, chatRun, depRun, lateVars>>

\* a line other than exit is entered at the prompt
LineEntered ==
  /\ replRun.pc = "prompt"
  /\ replRun.prompts <= MaxLines
  /\ \E cmd \in LineCommands, rejection \in RejectionOutcomes :
       \E failure \in FailurePoints[cmd] \cup {"none"} :
          replRun' = onLine(replRun, cmd, failure, rejection)
  /\ UNCHANGED replFrame

\* exit is entered at the prompt
ExitEntered ==
  /\ replRun.pc = "prompt"
  /\ replRun' = onLine(replRun, "exit", "none", "crashed")
  /\ UNCHANGED replFrame

NextRepl == LineEntered \/ ExitEntered

SpecRepl == InitRepl /\ [][NextRepl]_vars

-----------------------------------------------------------------------------
\* The calls to the remote model.  sendMessageWithRetry (retry.ts) sends
\* through withGeminiRetry; the other call sites call chatSession.sendMessage
\* themselves.

CallSites ==
  [ specExtract      |-> [wrapped |-> FALSE],  \* index.ts:733
    chatTurn         |-> [wrapped |-> FALSE],  \* index.ts:1126
    chatContinue     |-> [wrapped |-> FALSE],  \* index.ts:1183
    toolFollowUp     |-> [wrapped |-> FALSE],  \* index.ts:1251
    autoFix          |-> [wrapped |-> FALSE],  \* index.ts:1284
    specStage        |-> [wrapped |-> FALSE],  \* index.ts:1341
    agentPlan        |-> [wrapped |-> TRUE],   \* agent.ts:183
    agentStep        |-> [wrapped |-> TRUE],   \* agent.ts:218
    agentContinue    |-> [wrapped |-> TRUE],   \* agent.ts:249
    agentFix         |-> [wrapped |-> TRUE],   \* agent.ts:337
    agentFixContinue |-> [wrapped |-> TRUE] ]  \* agent.ts:354

\* the rejection of one sendMessage at a call site: the catch block of
\* withRetry for a wrapped site, the rejection itself for the others
sendRejected(r, error) ==
  IF CallSites[r.site].wrapped /\ ~rethrows(GeminiOptions, r.sends, error)
  THEN [r EXCEPT !.pc = "sending", !.sends = @ + 1, !.error = error]
  ELSE [r EXCEPT !.pc = "failed", !.error = error]

InitChat ==
  /\ Quiet /\ CallsIdle
  /\ stepRun = NoRun /\ specRun = NoRun /\ replRun = NoRun /\ depRun = NoRun /\ LateIdle
  /\ chatRun = [pc |-> "idle", site |-> "none", sends |-> 0, error |-> NoError]

chatFrame == <<quietVars, callVars, stepRun, specRun, replRun, depRun, lateVars>>

\* a call site sends its message
CallMade ==
  /\ chatRun.pc \in {"idle", "returned", "failed"}
  /\ \E site \in DOMAIN CallSites :
       chatRun' = [pc |-> "sending", site |-> site, sends |-> 1, error |-> NoError]
  /\ UNCHANGED chatFrame

\* sendMessage resolves
SendResolves ==
  /\ chatRun.pc = "sending"
  /\ chatRun' = [chatRun EXCEPT !.pc = "returned"]
  /\ UNCHANGED chatFrame

\* sendMessage rejects
SendRejects ==
  /\ chatRun.pc = "sending"
  /\ \E error \in Errors : chatRun' = sendRejected(chatRun, error)
  /\ UNCHANGED chatFrame

NextChat == CallMade \/ SendResolves \/ SendRejects

SpecChat == InitChat /\ [][NextChat]_vars

-----------------------------------------------------------------------------
\* dependency-graph.js: getDependencies and getDependents over an import
\* graph.  Files are numbered in the order buildDependencyGraph met them.

MaxFiles == 3
MaxDepthLimit == 2

DepFiles == 1..MaxFiles

\* the arrays extractImports can return: files of the graph, none twice
ImportLists ==
  {s \in UNION {[1..n -> DepFiles] : n \in 0..MaxFiles} :
     \A i, j \in DOMAIN s : i # j => s[i] # s[j]}

\* the files of up to f that import x, in the order of the second pass
RECURSIVE importersUpTo(_, _, _)
importersUpTo(imports, x, f) ==
  IF f = 0 THEN <<>>
  ELSE LET before == importersUpTo(imports, x, f - 1)
       IN IF \E k \in DOMAIN imports[f] : imports[f][k] = x
          THEN Append(before, f) ELSE before

\* node.importedBy of every node
importedBy(imports) == [x \in DepFiles |-> importersUpTo(imports, x, MaxFiles)]

\* traverse and the for loop in it; st is the visited set and the result array
RECURSIVE traverse(_, _, _, _, _)
RECURSIVE forEachEdge(_, _, _, _, _, _)
traverse(edges, maxDepth, currentFile, depth, st) ==
  IF depth > maxDepth \/ currentFile \in st.visited THEN st
  ELSE forEachEdge(edges, maxDepth, edges[currentFile], 1, depth,
                   [st EXCEPT !.visited = @ \cup {currentFile}])

forEachEdge(edges, maxDepth, list, k, depth, st) ==
  IF k > Len(list) THEN st
  ELSE IF list[k] \notin st.visited
  THEN forEachEdge(edges, maxDepth, list, k + 1, depth,
                   traverse(edges, maxDepth, list[k], depth + 1,
                            [st EXCEPT !.result = Append(@, list[k])]))
  ELSE forEachEdge(edges, maxDepth, list, k + 1, depth, st)

getDependencies(imports, file, maxDepth) ==
  traverse(imports, maxDepth, file, 0, [visited |-> {}, result |-> <<>>]).result

getDependents(imports, file, maxDepth) ==
  traverse(importedBy(imports), maxDepth, file, 0,
           [visited |-> {}, result |-> <<>>]).result

InitDep ==
  /\ Quiet /\ CallsIdle
  /\ stepRun = NoRun /\ specRun = NoRun /\ replRun = NoRun /\ chatRun = NoRun /\ LateIdle
  /\ \E imports \in [DepFiles -> ImportLists] :
       depRun = [pc |-> "built", imports |-> imports, fn |-> "none", file |-> 0,
                 maxDepth |-> 0, result |-> <<>>]

depFrame == <<quietVars, callVars, stepRun, specRun, replRun, chatRun, lateVars>>

GetDependencies ==
  /\ depRun.pc = "built"
  /\ \E file \in DepFiles, maxDepth \in 0..MaxDepthLimit :
       depRun' = [depRun EXCEPT !.pc = "returned", !.fn = "getDependencies",
                                !.file = file, !.maxDepth = maxDepth,
                                !.result = getDependencies(depRun.imports, file, maxDepth)]
  /\ UNCHANGED depFrame

GetDependents ==
  /\ depRun.pc = "built"
  /\ \E file \in DepFiles, maxDepth \in 0..MaxDepthLimit :
       depRun' = [depRun EXCEPT !.pc = "returned", !.fn = "getDependents",
                                !.file = file, !.maxDepth = maxDepth,
                                !.result = getDependents(depRun.imports, file, maxDepth)]
  /\ UNCHANGED depFrame

NextDep == GetDependencies \/ GetDependents

SpecDep == InitDep /\ [][NextDep]_vars

-----------------------------------------------------------------------------
\* The file watcher (startFileWatcher, stopFileWatcher, queueUpdate,
\* processUpdates) and the embedding index of embeddings.js.  A chunk is a
\* file and the version of its content that was chunked; version 0 is an
\* absent file.  Files change only while they are watched.  index.chunks and
\* chunksToAdd are arrays whose order nothing reads: they are bags of chunks.

MaxEvents == 3
MaxRebuilds == 1

WatchFiles == {"f", "g"}

Chunk(file, ver) == [file |-> file, ver |-> ver]

\* chunkCodebase / parseFileIntoChunks: the chunks of the files as they are
chunksOf(disk, files) == {Chunk(f, disk[f]) : f \in {x \in files : disk[x] > 0}}

\* index.chunks.filter(c => !filesToRemove.has(c.file))
withoutFiles(chunks, filesToRemove) ==
  [c \in {x \in DOMAIN chunks : x.file \notin filesToRemove} |-> chunks[c]]

\* Set.prototype.add on pendingUpdates, kept in insertion order
addUpdate(pending, u) ==
  IF \E k \in 1..Len(pending) : pending[k] = u THEN pending ELSE Append(pending, u)

\* queueUpdate: the update joins pendingUpdates and the debounce timer is set anew
queueUpdate(w, file, type) ==
  [w EXCEPT !.pending = addUpdate(@, [type |-> type, file |-> file]),
            !.timer = TRUE]

\* the end of processUpdates: index.chunks = [...filteredChunks, ...chunksToAdd]
\* on the index object the flush got at its start
writeIndex(w, fl, filtered) ==
  [w EXCEPT !.indexes[fl.ref] = filtered (+) fl.toAdd,
            !.touched = @ \cup fl.toRemove,
            !.last = "flushWrote"]

\* processUpdates from where it stands up to its next await: delete updates
\* are taken without waiting, an add or change waits for parseFileIntoChunks,
\* the end of the loop filters the chunks and waits for getEmbeddings if there
\* is a chunk to add.  The result is the watcher state and the flush, if it waits.
RECURSIVE runFlush(_, _)
runFlush(w, fl) ==
  IF fl.rest = <<>>
  THEN IF DOMAIN fl.toAdd = {}
       THEN [w |-> writeIndex(w, fl, withoutFiles(w.indexes[fl.ref], fl.toRemove)),
             waiting |-> <<>>]
       ELSE [w |-> w,
             waiting |-> <<[fl EXCEPT !.pc = "embedding",
                                      !.filtered = withoutFiles(w.indexes[fl.ref],
                                                                fl.toRemove)]>>]
  ELSE IF Head(fl.rest).type = "delete"
  THEN runFlush(w, [fl EXCEPT !.rest = Tail(@),
                              !.toRemove = @ \cup {Head(fl.rest).file}])
  ELSE [w |-> w,
        waiting |-> <<[fl EXCEPT !.pc = "parsing",
                                 !.toRemove = @ \cup {Head(fl.rest).file}]>>]

\* the flushes in flight with flush i replaced by what is left of it
putFlush(flushes, i, waiting) ==
  SubSeq(flushes, 1, i - 1) \o waiting \o SubSeq(flushes, i + 1, Len(flushes))

\* processUpdates as the timer calls it
processUpdates(w) ==
  IF w.pending = <<>> \/ ~w.genAI THEN [w EXCEPT !.timer = FALSE, !.last = "noFlush"]
  ELSE LET r == runFlush([w EXCEPT !.timer = FALSE, !.pending = <<>>,
                                   !.started = @ + 1, !.last = "flushStart"],
                         [updates |-> w.pending, rest |-> w.pending, toRemove |-> {},
                          toAdd |-> EmptyBag, filtered |-> EmptyBag,
                          ref |-> Len(w.indexes),
                          pc |-> "started"])
       IN [r.w EXCEPT !.flushes = @ \o r.waiting,
                      !.last = IF r.waiting = <<>> THEN "flushWrote" ELSE "flushStart"]

\* the flush i after its parseFileIntoChunks settled: the chunks of the file
\* as it is, or none when the parse threw
afterParse(w, i) ==
  LET fl == w.flushes[i]
      file == Head(fl.rest).file
      r == runFlush([w EXCEPT !.last = "parsed"],
                    [fl EXCEPT !.rest = Tail(@),
                               !.toAdd = @ (+) SetToBag(chunksOf(w.disk, {file}))])
  IN [r.w EXCEPT !.flushes = putFlush(@, i, r.waiting)]

\* the flush i after its getEmbeddings resolved
afterEmbeddings(w, i) ==
  [writeIndex(w, w.flushes[i], w.flushes[i].filtered) EXCEPT
     !.flushes = putFlush(@, i, <<>>)]

InitWatch ==
  /\ Quiet /\ CallsIdle
  /\ stepRun = NoRun /\ specRun = NoRun /\ replRun = NoRun /\ chatRun = NoRun
  /\ depRun = NoRun /\ convRun = NoRun /\ pathRun = NoRun /\ procRun = NoRun
  /\ debRun = NoRun
  /\ \E disk \in [WatchFiles -> {0, 1}] :
       watchRun = [watcher |-> TRUE, genAI |-> TRUE, pending |-> <<>>, timer |-> FALSE,
                   flushes |-> <<>>, indexes |-> <<SetToBag(chunksOf(disk, WatchFiles))>>,
                   disk |-> disk, events |-> 0, rebuilds |-> 0, touched |-> {},
                   started |-> 0,
                   last |-> "started"]

watchFrame == <<quietVars, callVars, stepRun, specRun, replRun, chatRun, depRun, convRun, pathRun,
               procRun, debRun>>

\* a watched file is written, created or removed and chokidar reports it
FileEvent ==
  /\ watchRun.watcher
  /\ watchRun.events < MaxEvents
  /\ \E file \in WatchFiles, type \in {"change", "add", "delete"} :
       /\ type = "add" <=> watchRun.disk[file] = 0
       /\ watchRun' = queueUpdate(
            [watchRun EXCEPT !.disk[file] = IF type = "delete" THEN 0
                                            ELSE watchRun.events + 2,
                             !.events = @ + 1, !.last = "event"],
            file, type)
  /\ UNCHANGED watchFrame

\* the debounce timer fires
TimerFires ==
  /\ watchRun.timer
  /\ watchRun' = processUpdates(watchRun)
  /\ UNCHANGED watchFrame

ParseSettles ==
  /\ \E i \in 1..Len(watchRun.flushes) :
       /\ watchRun.flushes[i].pc = "parsing"
       /\ watchRun' = afterParse(watchRun, i)
  /\ UNCHANGED watchFrame

EmbeddingsResolve ==
  /\ \E i \in 1..Len(watchRun.flushes) :
       /\ watchRun.flushes[i].pc = "embedding"
       /\ watchRun' = afterEmbeddings(watchRun, i)
  /\ UNCHANGED watchFrame

\* stopFileWatcher: the watcher is closed; the timer and the queue stay
StopFileWatcher ==
  /\ watchRun.watcher
  /\ watchRun' = [watchRun EXCEPT !.watcher = FALSE, !.last = "stopped"]
  /\ UNCHANGED watchFrame

\* initSmartContext(genAI, cwd, true) settles while the watcher is stopped:
\* indexWithEmbeddings puts a new index object in place
Rebuild ==
  /\ ~watchRun.watcher
  /\ watchRun.rebuilds < MaxRebuilds
  /\ watchRun' = [watchRun EXCEPT
                    !.indexes = Append(@, SetToBag(chunksOf(watchRun.disk, WatchFiles))),
                    !.rebuilds = @ + 1, !.last = "rebuilt"]
  /\ UNCHANGED watchFrame

StartFileWatcher ==
  /\ ~watchRun.watcher
  /\ watchRun' = [watchRun EXCEPT !.watcher = TRUE, !.last = "started"]
  /\ UNCHANGED watchFrame

NextWatch ==
  \/ FileEvent \/ TimerFires \/ ParseSettles \/ EmbeddingsResolve
  \/ StopFileWatcher \/ Rebuild \/ StartFileWatcher

SpecWatch == InitWatch /\ [][NextWatch]_vars

-----------------------------------------------------------------------------
\* index.ts: the main conversation history and chat().  A chat() call is
\* awaited by the interactive loop, so the calls follow one another; inside a
\* call the steps are the awaited answers of the model session.

MaxChats == 3
MaxToolRounds == 2

HistoryCeiling == 50000
\* a message of more tokens than the ceiling
BigChars == 200004
UserTexts == {4, BigChars}

UserTurn(n) == [role |-> "user", parts |-> <<TextPart(n)>>]
ModelText == [role |-> "model", parts |-> <<TextPart(4)>>]
ModelCalls == [role |-> "model", parts |-> <<CallPart>>]
FunctionResponses ==
  [role |-> "user", parts |-> <<[kind |-> "functionResponse", len |-> 0]>>]

\* Array.prototype.pop
Popped(history) == SubSeq(history, 1, Len(history) - 1)

\* chat() up to its first sendMessage: the message joins the history and the
\* session gets the history before it, optimized
chatStart(r, origin, n) ==
  [r EXCEPT !.pc = "first", !.origin = origin, !.calls = @ + 1, !.rounds = 0,
            !.handed = optimizeHistory(r.history, HistoryCeiling),
            !.history = Append(@, UserTurn(n))]

\* chat() after the first answer
afterFirst(r, fcs) ==
  IF fcs
  THEN [r EXCEPT !.pc = "second",
                 !.history = Append(Append(@, ModelCalls), FunctionResponses)]
  ELSE [r EXCEPT !.pc = "idle", !.history = Append(@, ModelText)]

\* chat() after the answer to the function responses
afterSecond(r, nextFcs) ==
  IF nextFcs
  THEN [r EXCEPT !.pc = "handling", !.rounds = @ + 1,
                 !.history = Append(Popped(@), ModelCalls)]
  ELSE [r EXCEPT !.pc = "idle", !.history = Append(Popped(@), ModelText)]

\* handleFunctionCalls after the answer to its function responses
afterHandled(r, nextFcs, diagnosticErrors) ==
  IF nextFcs
  THEN [r EXCEPT !.pc = "handling", !.rounds = @ + 1,
                 !.history = Append(@, ModelCalls)]
  ELSE IF diagnosticErrors
  THEN [r EXCEPT !.pc = "fixing",
                 !.history = Append(Append(@, ModelText), UserTurn(4))]
  ELSE [r EXCEPT !.pc = "idle", !.history = Append(@, ModelText)]

\* handleFunctionCalls after the answer to the fix prompt
afterFix(r, fixFcs) ==
  IF fixFcs
  THEN [r EXCEPT !.pc = "handling", !.rounds = @ + 1,
                 !.history = Append(@, ModelCalls)]
  ELSE [r EXCEPT !.pc = "idle", !.history = Append(@, ModelText)]

InitConv ==
  /\ Quiet /\ CallsIdle
  /\ stepRun = NoRun /\ specRun = NoRun /\ replRun = NoRun /\ chatRun = NoRun
  /\ depRun = NoRun /\ watchRun = NoRun /\ pathRun = NoRun /\ procRun = NoRun
  /\ debRun = NoRun
  /\ convRun = [pc |-> "idle", origin |-> "none", history |-> <<>>, handed |-> <<>>,
                calls |-> 0, rounds |-> 0]

convFrame == <<quietVars, callVars, stepRun, specRun, replRun, chatRun, depRun, watchRun, pathRun,
              procRun, debRun>>

\* a message typed at the prompt goes to chat()
ChatStarts ==
  /\ convRun.pc = "idle"
  /\ convRun.calls < MaxChats
  /\ \E n \in UserTexts : convRun' = chatStart(convRun, "chat", n)
  /\ UNCHANGED convFrame

\* /spec next: chat(model, history, prompt, "/spec implement <id>")
SpecNextStarts ==
  /\ convRun.pc = "idle"
  /\ convRun.calls < MaxChats
  /\ convRun' = chatStart(convRun, "specNext", 4)
  /\ UNCHANGED convFrame

\* /agent and /spec auto: runAgentMode, with sessions of its own
AgentLoopRuns ==
  /\ convRun.pc = "idle"
  /\ convRun' = [convRun EXCEPT !.origin = "agent"]
  /\ UNCHANGED convFrame

\* /spec requirements, design, tasks: generateSpecPhase, with a session of its own
SpecStageRuns ==
  /\ convRun.pc = "idle"
  /\ convRun' = [convRun EXCEPT !.origin = "specStage"]
  /\ UNCHANGED convFrame

AnswerArrives ==
  /\ convRun.pc \in {"first", "second", "handling", "fixing"}
  /\ \E fcs \in BOOLEAN, diagnosticErrors \in BOOLEAN :
       /\ fcs => convRun.rounds < MaxToolRounds
       /\ convRun' =
            CASE convRun.pc = "first" -> afterFirst(convRun, fcs)
              [] convRun.pc = "second" -> afterSecond(convRun, fcs)
              [] convRun.pc = "handling" -> afterHandled(convRun, fcs, diagnosticErrors)
              [] convRun.pc = "fixing" -> afterFix(convRun, fcs)
  /\ UNCHANGED convFrame

\* sendMessage rejects: chat() throws and the caller's catch prints the error
AnswerFails ==
  /\ convRun.pc \in {"first", "second", "handling", "fixing"}
  /\ convRun' = [convRun EXCEPT !.pc = "idle"]
  /\ UNCHANGED convFrame

NextConv ==
  \/ ChatStarts \/ SpecNextStarts \/ AgentLoopRuns \/ SpecStageRuns
  \/ AnswerArrives \/ AnswerFails

SpecConv == InitConv /\ [][NextConv]_vars

-----------------------------------------------------------------------------
\* security.js: checkPath and checkFileWrite over target paths built from
\* segments, relative and absolute.

MaxSegments == 3

Segments == {<<"w">>, <<"w", "2">>, <<"a">>, <<Dot>>, <<Dot, Dot>>, <<".", "e", "n", "v">>}

SegmentLists == UNION {[1..n -> Segments] : n \in 1..MaxSegments}

\* the target paths: each list of segments as an absolute and as a relative path
TargetPaths ==
  {JoinAbs(segs) : segs \in SegmentLists} \cup {Tail(JoinAbs(segs)) : segs \in SegmentLists}

checkFileWriteOf(filePath) ==
  LET pathCheck == checkPathOf(filePath)
  IN IF ~pathCheck.allowed THEN pathCheck
     ELSE IF basename(filePath) \in criticalFiles
     THEN [allowed |-> TRUE, reason |-> "", warning |-> TRUE]
     ELSE [allowed |-> TRUE, reason |-> "", warning |-> FALSE]

NotChecked == [allowed |-> FALSE, reason |-> "not called", warning |-> FALSE]

InitPath ==
  /\ Quiet /\ CallsIdle
  /\ stepRun = NoRun /\ specRun = NoRun /\ replRun = NoRun /\ chatRun = NoRun
  /\ depRun = NoRun /\ watchRun = NoRun /\ convRun = NoRun /\ procRun = NoRun
  /\ debRun = NoRun
  /\ pathRun \in {[target |-> p, fn |-> "none", result |-> NotChecked] : p \in TargetPaths}

pathFrame ==
  <<quietVars, callVars, stepRun, specRun, replRun, chatRun, depRun, watchRun, convRun,
    procRun, debRun>>

CheckPath ==
  /\ pathRun.fn = "none"
  /\ pathRun' = [pathRun EXCEPT !.fn = "checkPath", !.result = checkPathOf(pathRun.target)]
  /\ UNCHANGED pathFrame

CheckFileWrite ==
  /\ pathRun.fn = "none"
  /\ pathRun' = [pathRun EXCEPT !.fn = "checkFileWrite",
                                !.result = checkFileWriteOf(pathRun.target)]
  /\ UNCHANGED pathFrame

NextPath == CheckPath \/ CheckFileWrite

SpecPath == InitPath /\ [][NextPath]_vars

-----------------------------------------------------------------------------
\* process.ts: one background process from startProcess on.  The handlers of
\* the child's events and stopProcess run to completion one after the other;
\* the child's events arrive in any order, "exit" and "error" at most once
\* each, data also after "exit" (the streams close later).

MAX_OUTPUT_LINES == 500

MaxDataEvents == 3

\* how many non-blank lines a chunk of data holds
LineCounts == {0, 1, MAX_OUTPUT_LINES - 1, MAX_OUTPUT_LINES + 1}

\* the exit codes of the "exit" event: null when a signal ended the child
ExitCodes == {"0", "1", "null"}

ProcessIds == {1, 2}

\* output.push(...lines) and the slice that keeps the last lines
pushLines(output, n) ==
  IF output + n > MAX_OUTPUT_LINES THEN MAX_OUTPUT_LINES ELSE output + n

\* the stdout and stderr handlers
onData(r, stream, n) ==
  [r EXCEPT !.output = pushLines(@, n), !.data = @ + 1, !.last = stream]

\* the exit handler
onExit(r, code) ==
  [r EXCEPT !.status = IF code = "0" THEN "stopped" ELSE "error",
            !.output = @ + 1, !.exited = TRUE, !.last = "exit"]

\* the error handler
onError(r) ==
  [r EXCEPT !.status = "error", !.output = @ + 1, !.failed = TRUE, !.last = "error"]

\* stopProcess: processes holds the process under id 1
stopProcess(r, processId) ==
  IF processId # 1
  THEN [r EXCEPT !.last = "stop", !.stop = "not found"]
  ELSE IF r.status # "running"
  THEN [r EXCEPT !.last = "stop", !.stop = "not running"]
  ELSE [r EXCEPT !.status = "stopped", !.last = "stop", !.stop = "success",
                 !.stopped = TRUE]

InitProc ==
  /\ Quiet /\ CallsIdle
  /\ stepRun = NoRun /\ specRun = NoRun /\ replRun = NoRun /\ chatRun = NoRun
  /\ depRun = NoRun /\ watchRun = NoRun /\ convRun = NoRun /\ pathRun = NoRun
  /\ debRun = NoRun
  /\ procRun = [status |-> "running", output |-> 0, data |-> 0, exited |-> FALSE,
                failed |-> FALSE, stopped |-> FALSE, stop |-> "none", last |-> "start"]

procFrame ==
  <<quietVars, callVars, stepRun, specRun, replRun, chatRun, depRun, watchRun, convRun,
    pathRun, debRun>>

StdoutData ==
  /\ procRun.data < MaxDataEvents
  /\ \E n \in LineCounts : procRun' = onData(procRun, "stdout", n)
  /\ UNCHANGED procFrame

StderrData ==
  /\ procRun.data < MaxDataEvents
  /\ \E n \in LineCounts : procRun' = onData(procRun, "stderr", n)
  /\ UNCHANGED procFrame

ChildExits ==
  /\ ~procRun.exited
  /\ \E code \in ExitCodes : procRun' = onExit(procRun, code)
  /\ UNCHANGED procFrame

ChildErrors ==
  /\ ~procRun.failed
  /\ procRun' = onError(procRun)
  /\ UNCHANGED procFrame

StopProcess ==
  /\ procRun.last # "stop"
  /\ \E processId \in ProcessIds : procRun' = stopProcess(procRun, processId)
  /\ UNCHANGED procFrame

NextProc == StdoutData \/ StderrData \/ ChildExits \/ ChildErrors \/ StopProcess

SpecProc == InitProc /\ [][NextProc]_vars

-----------------------------------------------------------------------------
\* The debounce timer of queueUpdate with its time.  A tick is half of
\* DEBOUNCE_DELAY; a timeout runs its callback when its delay has passed, or
\* later, never before.  The watcher is running and stays so.

DebounceTicks == 2

\* a queueUpdate that sets a timeout only when none is pending
keepTimeout(wait) == IF wait > 0 THEN wait ELSE DebounceTicks

\* queueUpdate: clearTimeout(updateTimeout), then setTimeout(..., DEBOUNCE_DELAY)
resetTimeout(wait) == DebounceTicks

\* the updates of a queue as a set
UpdatesOf(pending) == {pending[k] : k \in 1..Len(pending)}

InitDebounce ==
  /\ Quiet /\ CallsIdle
  /\ stepRun = NoRun /\ specRun = NoRun /\ replRun = NoRun /\ chatRun = NoRun
  /\ depRun = NoRun /\ convRun = NoRun /\ pathRun = NoRun /\ procRun = NoRun
  /\ \E disk \in [WatchFiles -> {0, 1}] :
       watchRun = [watcher |-> TRUE, genAI |-> TRUE, pending |-> <<>>, timer |-> FALSE,
                   flushes |-> <<>>, indexes |-> <<SetToBag(chunksOf(disk, WatchFiles))>>,
                   disk |-> disk, events |-> 0, rebuilds |-> 0, touched |-> {},
                   started |-> 0, last |-> "started"]
  /\ debRun = [wait |-> 0, since |-> 0, burst |-> {}, spaced |-> FALSE, fires |-> 0,
               firedAfter |-> 0, lastBurst |-> {}, lastBatch |-> {},
               lastSpaced |-> FALSE]

debFrame ==
  <<quietVars, callVars, stepRun, specRun, replRun, chatRun, depRun, convRun, pathRun,
    procRun>>

\* a watched file is written, created or removed: queueUpdate with its timeout
TimedFileEvent ==
  /\ watchRun.events < MaxEvents
  /\ \E file \in WatchFiles, type \in {"change", "add", "delete"} :
       /\ type = "add" <=> watchRun.disk[file] = 0
       /\ watchRun' = queueUpdate(
            [watchRun EXCEPT !.disk[file] = IF type = "delete" THEN 0
                                            ELSE watchRun.events + 2,
                             !.events = @ + 1, !.last = "event"],
            file, type)
       /\ debRun' = [debRun EXCEPT
                       !.wait = resetTimeout(@), !.since = 0,
                       !.burst = @ \cup {[type |-> type, file |-> file]},
                       !.spaced = @ \/ (watchRun.timer /\ debRun.since > 0)]
  /\ UNCHANGED debFrame

\* half of the delay passes with a timeout pending
Tick ==
  /\ watchRun.timer
  /\ debRun.wait > 0
  /\ debRun' = [debRun EXCEPT !.wait = @ - 1, !.since = @ + 1]
  /\ UNCHANGED <<watchRun, debFrame>>

\* the timeout's callback runs: processUpdates
TimeoutRuns ==
  /\ watchRun.timer
  /\ debRun.wait = 0
  /\ watchRun' = processUpdates(watchRun)
  /\ debRun' = [debRun EXCEPT
                  !.fires = @ + 1, !.firedAfter = debRun.since,
                  !.lastBurst = debRun.burst, !.lastSpaced = debRun.spaced,
                  !.lastBatch = UpdatesOf(watchRun.pending),
                  !.burst = {}, !.spaced = FALSE]
  /\ UNCHANGED debFrame

NextDebounce ==
  TimedFileEvent \/ Tick \/ TimeoutRuns \/ ParseSettles \/ EmbeddingsResolve

SpecDebounce == InitDebounce /\ [][NextDebounce]_vars

-----------------------------------------------------------------------------
\* process.ts: takeSnapshot on stores that are nearly full.  The stores of
\* the initial states are those a run of takeSnapshot calls leaves: a number
\* of snapshots of b followed by a number of snapshots of a.

MaxTakes == 3

SnapPaths == {P_a, P_b}

\* how many snapshots of a path were taken before the first state
PriorTakes == {0, MAX_HISTORY_PER_FILE - 2, MAX_HISTORY_PER_FILE - 1, MAX_HISTORY_PER_FILE}

RECURSIVE takeSnapshots(_, _, _)
\* n calls of takeSnapshot for the path
takeSnapshots(w, filePath, n) ==
  IF n = 0 THEN w
  ELSE LET taken == takeSnapshot(w, filePath)
       IN IF taken.nextSnapId = w.nextSnapId + 1
          THEN takeSnapshots(taken, filePath, n - 1)
          ELSE w

InitSnap ==
  /\ fs = [f \in Files |-> NoFile]
  /\ TxIdle /\ ToolIdle /\ CallsIdle /\ MoreIdle
  /\ histPre = fs
  /\ writesTo = [f \in Files |-> 0]
  /\ undosOf = [f \in Files |-> 0]
  /\ phase = [f \in Files |-> "writing"]
  /\ undoCalls = 0
  /\ undoResult = [op |-> "none"]
  /\ \E na \in PriorTakes, nb \in PriorTakes :
       \E w \in {takeSnapshots(
                   takeSnapshots([fs |-> fs, fileHistory |-> [f \in Files |-> <<>>],
                                  changeLog |-> <<>>, nextSnapId |-> 1,
                                  transactions |-> <<>>, processes |-> <<>>,
                                  toolCache |-> <<>>], P_b, nb),
                   P_a, na)} :
          /\ fileHistory = w.fileHistory
          /\ changeLog = w.changeLog
          /\ nextSnapId = w.nextSnapId

\* takeSnapshot(filePath, operation) is called; writesTo counts the calls
TakeSnapshot ==
  /\ \A f \in Files : writesTo[f] < MaxTakes
  /\ \E p \in SnapPaths :
       /\ SetWorld(takeSnapshot(World, p))
       /\ writesTo' = [writesTo EXCEPT ![FileOf(resolvePath(p))] = @ + 1]
  /\ UNCHANGED <<txResult, txPre, toolCall, toolCalls>>
  /\ UNCHANGED <<histPre, undosOf, phase, undoCalls, undoResult, callVars, moreVars>>

NextSnap == TakeSnapshot

SpecSnap == InitSnap /\ [][NextSnap]_vars

-----------------------------------------------------------------------------
-----------------------------------------------------------------------------
\* C2: after n snapshot-taking writes to a file, n calls of undo aimed at that
\* file leave it as it was before the first write (absent if it did not exist).
C2_UndoRoundTrip ==
  \A f \in Files :
     (phase[f] = "undoing" /\ writesTo[f] > 0 /\ undosOf[f] = writesTo[f])
        => fs[f] = histPre[f]

\* a path escapes the project root when, normalized, it is neither the root
\* nor a path below it
InTree(p) ==
  LET n == FileOf(resolvePath(p))
  IN n = cwd \/ StartsWith(n, cwd \o <<Slash>>)

Dangerous(command) == \E pattern \in DANGEROUS_COMMANDS : Includes(command, pattern)

CarriesViolation(call) ==
  \/ call.command # Undefined /\ Dangerous(call.command)
  \/ call.path # Undefined /\ ~InTree(call.path)
  \/ \E k \in 1..Len(call.edits) : ~InTree(call.edits[k].path)

\* C3: a tool call that carries a dangerous command or a path outside the
\* project root is denied and writes no file, deletes no file and spawns no
\* process, whichever tool it is.
C3_SecurityGate ==
  (toolCall.name # "none" /\ CarriesViolation(toolCall.call)) =>
     /\ toolCall.result.kind = "denied"
     /\ \A e \in toolCall.effects : e.kind \notin {"write", "delete", "spawn"}

RECURSIVE SumTokens(_)
SumTokens(items) == IF items = <<>> THEN 0 ELSE items[1].tokens + SumTokens(Tail(items))

\* C4: for items with non-negative token costs and a ceiling, the included set
\* of buildSmartContext costs at most the ceiling in total, and the reported
\* totalTokens is that total.
C4_WithinCeiling ==
  ctxRun.pc = "returned" =>
     /\ SumTokens(ctxRun.result.included) <= ctxRun.maxTokens
     /\ ctxRun.result.totalTokens = SumTokens(ctxRun.result.included)

\* an item was left out for its cost and a later, cheaper one still went in
C4_Witness ==
  /\ ctxRun.pc = "returned"
  /\ ctxRun.result.totalTokens = ctxRun.maxTokens
  /\ \E i \in 1..Len(ctxRun.result.excluded), j \in 1..Len(ctxRun.result.included) :
        /\ ctxRun.result.excluded[i].priority > ctxRun.result.included[j].priority
        /\ ctxRun.result.included[j].tokens > 0

\* C5: for a non-empty history and any ceiling, optimizeHistory returns a
\* non-empty result that holds at least the last two turns of the input.
C5_KeepsLastTwo ==
  (optRun.pc = "returned" /\ optRun.history # <<>>) =>
     /\ optRun.result # <<>>
     /\ \A k \in 1..Len(optRun.history) :
           k >= Len(optRun.history) - 1 =>
              \E j \in 1..Len(optRun.result) : optRun.result[j].id = k

\* C6: an error that matches no transient signature ends withRetry at once: it
\* is the error raised, the call that failed with it is the last one, and no
\* delay and no observer call follow it; on the first attempt the call has
\* been invoked exactly once, with no delay and no observer call at all.
C6_NonTransientRaisedAtOnce ==
  retryRun.pc # "idle" =>
     \A k \in 1..Len(retryRun.errors) :
        ~isRetryableError(retryRun.errors[k]) =>
           /\ retryRun.pc = "raised"
           /\ retryRun.raised = retryRun.errors[k]
           /\ retryRun.calls = k
           /\ Len(retryRun.slept) = k - 1
           /\ Len(retryRun.observed) = k - 1

C6_Witness ==
  /\ retryRun.pc = "raised"
  /\ retryRun.opts.maxRetries >= 1
  /\ retryRun.calls = 1
  /\ ~isRetryableError(retryRun.errors[1])
  /\ retryRun.slept = <<>> /\ retryRun.observed = <<>>

\* C7: for a retry limit N the call is invoked at most N+1 times; a success
\* ends the run; the observer is invoked once, with the attempt number, the
\* delay and the error, after each failed call that is retried; and when all
\* N+1 calls fail with transient errors the last error is raised.
C7_BoundedAttempts ==
  retryRun.pc # "idle" =>
     /\ retryRun.calls <= retryRun.opts.maxRetries + 1
     /\ retryRun.pc = "returned" => retryRun.calls = Len(retryRun.errors) + 1
     /\ retryRun.pc = "running" => Len(retryRun.observed) = retryRun.calls
     /\ retryRun.pc \in {"returned", "raised"} =>
           Len(retryRun.observed) = retryRun.calls - 1
     /\ \A k \in 1..Len(retryRun.observed) :
           retryRun.observed[k] = [attempt |-> k, error |-> retryRun.errors[k],
                                   delay |-> retryRun.slept[k]]
     /\ (/\ retryRun.pc = "raised"
         /\ \A k \in 1..Len(retryRun.errors) : isRetryableError(retryRun.errors[k]))
           => /\ retryRun.calls = retryRun.opts.maxRetries + 1
              /\ retryRun.raised = Last(retryRun.errors)

C7_Witness ==
  /\ retryRun.pc = "raised"
  /\ retryRun.opts.maxRetries = 3
  /\ retryRun.calls = 4
  /\ Len(retryRun.observed) = 3
  /\ \A k \in 1..Len(retryRun.errors) : isRetryableError(retryRun.errors[k])

\* C8: when runAgentMode has returned the plan is done or failed; it is done
\* only if every step is done or skipped, and failed if some step is not.
C8_TerminalStatus ==
  agentRun.pc = "returned" =>
     /\ agentRun.plan.status \in {"done", "failed"}
     /\ agentRun.plan.status = "done" =>
           \A k \in 1..Len(agentRun.plan.steps) :
              agentRun.plan.steps[k].status \in {"done", "skipped"}
     /\ (\E k \in 1..Len(agentRun.plan.steps) :
            agentRun.plan.steps[k].status \notin {"done", "skipped"})
           => agentRun.plan.status = "failed"

\* the global cap ended the run: a step failed and a later one never ran
C8_Witness ==
  /\ agentRun.pc = "returned"
  /\ agentRun.plan.status = "failed"
  /\ \E k \in 1..Len(agentRun.plan.steps) : agentRun.plan.steps[k].status = "done"
  /\ \E k \in 1..Len(agentRun.plan.steps) : agentRun.plan.steps[k].status = "failed"
  /\ \E k \in 1..Len(agentRun.plan.steps) : agentRun.plan.steps[k].status = "pending"

\* C9: whenever runAgentMode has returned, the plan has its completion
\* timestamp and the summary was printed.
C9_AlwaysCompleted ==
  agentRun.pc = "returned" => agentRun.plan.completedAt /\ agentRun.summary

C10_Counters ==
  agentRun.pc # "idle" =>
     /\ agentRun.plan.totalRetries <= agentRun.cfg.maxTotalRetries
     /\ \A k \in 1..Len(agentRun.plan.steps) :
           LET step == agentRun.plan.steps[k]
           IN /\ step.attempts <= agentRun.cfg.maxRetries
              /\ step.status = "failed" =>
                    /\ step.retries > 0
                    /\ ~(/\ step.retries < agentRun.cfg.maxRetries
                         /\ step.failedAt < agentRun.cfg.maxTotalRetries)
              /\ (step.retries > 0 /\ step.status # "failed") =>
                    /\ step.retries < agentRun.cfg.maxRetries
                    /\ step.failedAt < agentRun.cfg.maxTotalRetries
                    /\ step.attempts = step.retries + 1
                    /\ \A j \in (k + 1)..Len(agentRun.plan.steps) :
                          step.status = "running" =>
                             agentRun.plan.steps[j].attempts = 0

C10_FailedStays ==
  agentRun.pc # "idle" =>
     \A k \in 1..Len(agentRun.plan.steps) :
        agentRun.plan.steps[k].status = "failed" =>
           /\ agentRun'.plan.steps[k].status = "failed"
           /\ agentRun'.plan.steps[k].attempts = agentRun.plan.steps[k].attempts

\* C10: a failed step is run again, before any later step, exactly when its
\* retries are under the per-step cap and the plan's total retries are under
\* the global cap, and is marked failed for good otherwise; no step is run
\* more often than the per-step cap and the total never exceeds the global cap.
C10_RetryCaps == []C10_Counters /\ [][C10_FailedStays]_vars

\* the default caps: three steps used up their three attempts and the fourth
\* failure reached the global cap of ten
C10_Witness ==
  /\ agentRun.pc = "returned"
  /\ agentRun.cfg = DEFAULT_CONFIG
  /\ agentRun.plan.totalRetries = agentRun.cfg.maxTotalRetries
  /\ \E k \in 1..Len(agentRun.plan.steps) :
        /\ agentRun.plan.steps[k].status = "failed"
        /\ agentRun.plan.steps[k].attempts = 1
  /\ \E k \in 1..Len(agentRun.plan.steps) :
        /\ agentRun.plan.steps[k].status = "failed"
        /\ agentRun.plan.steps[k].attempts = agentRun.cfg.maxRetries

C11_Aborted ==
  agentRun.pc # "idle" =>
     /\ agentRun.plan.totalRetries >= agentRun.cfg.maxTotalRetries =>
           /\ agentRun.pc = "returned"
           /\ (\E k \in 1..Len(agentRun.plan.steps) :
                  agentRun.plan.steps[k].status = "pending")
                 => agentRun.plan.status = "failed"
     /\ \A k \in 1..Len(agentRun.plan.steps) :
           /\ agentRun.plan.steps[k].status = "pending" =>
                 agentRun.plan.steps[k].attempts = 0
           /\ (/\ agentRun.plan.steps[k].status = "failed"
               /\ agentRun.plan.steps[k].failedAt < agentRun.cfg.maxTotalRetries
               /\ k < Len(agentRun.plan.steps))
                 => agentRun.plan.steps[k + 1].attempts >= 1

C11_NothingStartedAfter ==
  (/\ agentRun.pc # "idle"
   /\ agentRun.plan.totalRetries >= agentRun.cfg.maxTotalRetries)
     => \A k \in 1..Len(agentRun.plan.steps) :
           agentRun'.plan.steps[k].attempts = agentRun.plan.steps[k].attempts

\* C11: once the global retry cap is used up while steps remain, the plan ends
\* failed and no remaining step is started any more; a step that fails for good
\* while the cap is not used up does not end the plan: the next step is started.
C11_GlobalCapAborts == []C11_Aborted /\ [][C11_NothingStartedAfter]_vars

\* a step failed for good under the cap and the next one ran; later the cap was
\* used up and a step was left pending
C11_Witness ==
  /\ agentRun.pc = "returned"
  /\ agentRun.plan.status = "failed"
  /\ agentRun.plan.totalRetries >= agentRun.cfg.maxTotalRetries
  /\ \E k \in 1..Len(agentRun.plan.steps) :
        agentRun.plan.steps[k].status = "pending"
  /\ \E k \in 1..(Len(agentRun.plan.steps) - 1) :
        /\ agentRun.plan.steps[k].status = "failed"
        /\ agentRun.plan.steps[k].failedAt < agentRun.cfg.maxTotalRetries
        /\ agentRun.plan.steps[k + 1].attempts >= 1

\* C12: within one step the requested tool calls are executed and fed back for
\* at most 10 rounds, and the step is marked done only when the latest response
\* of the model requests no tool calls.
C12_DoneOnlyWithoutCalls ==
  stepRun.pc # "idle" =>
     /\ stepRun.rounds <= maxIterations
     /\ stepRun.status = "done" => stepRun.latestCalls = 0

\* the number of pending tasks among the first j
PendingRank(tasks, j) == Cardinality({i \in 1..j : tasks[i] = "pending"})

\* C13: the plan /spec auto runs has one step per pending task of the active
\* spec, in task order, and after the run the status of each step is on the
\* task it was made from (done as done, failed as pending), every other task
\* keeping its status.
C13_AutoReconciles ==
  (specRun.last.cmd = "auto" /\ specRun.last.outcome = "updated") =>
     /\ Len(specRun.last.plan) = PendingRank(specRun.last.mem.tasks,
                                             Len(specRun.last.mem.tasks))
     /\ Len(specRun.mem.tasks) = Len(specRun.last.mem.tasks)
     /\ \A j \in 1..Len(specRun.last.mem.tasks) :
           IF specRun.last.mem.tasks[j] = "pending"
              /\ PendingRank(specRun.last.mem.tasks, j) <= Len(specRun.last.plan)
           THEN specRun.mem.tasks[j] =
                  (IF specRun.last.plan[PendingRank(specRun.last.mem.tasks, j)] = "done"
                   THEN "done" ELSE "pending")
           ELSE specRun.mem.tasks[j] = specRun.last.mem.tasks[j]

\* C14: after a task status update on a spec that has tasks, the spec is done
\* only if every task is done or skipped, and is implementing if some task is
\* in-progress.
C14_StatusFollowsTasks ==
  (/\ specRun.last.cmd \in {"next", "done", "skip", "auto"}
   /\ specRun.disk # specRun.last.disk
   /\ specRun.disk.tasks # <<>>) =>
     /\ specRun.disk.status = "done" =>
           \A k \in 1..Len(specRun.disk.tasks) :
              specRun.disk.tasks[k] \in {"done", "skipped"}
     /\ (\E k \in 1..Len(specRun.disk.tasks) : specRun.disk.tasks[k] = "in-progress")
           => specRun.disk.status = "implementing"

\* C15: the design stage is generated only when the requirements list is not
\* empty and the tasks stage only when the design list is not empty; otherwise
\* the command is rejected and the spec is unchanged.
C15_StageNeedsPrerequisite ==
  /\ specRun.last.cmd = "design" =>
        /\ specRun.last.outcome = "generated" => specRun.last.mem.requirements # 0
        /\ specRun.last.mem.requirements = 0 =>
              /\ specRun.last.outcome = "rejected"
              /\ specRun.mem = specRun.last.mem /\ specRun.disk = specRun.last.disk
  /\ specRun.last.cmd = "tasks" =>
        /\ specRun.last.outcome = "generated" => specRun.last.mem.design # 0
        /\ specRun.last.mem.design = 0 =>
              /\ specRun.last.outcome = "rejected"
              /\ specRun.mem = specRun.last.mem /\ specRun.disk = specRun.last.disk

\* /spec tasks was rejected on a spec that has requirements but no design
C15_Witness ==
  /\ specRun.last.cmd = "tasks"
  /\ specRun.last.outcome = "rejected"
  /\ specRun.last.mem.active
  /\ specRun.last.mem.requirements # 0
  /\ specRun.last.mem.design = 0


\* C16: after every line other than exit, whatever the outcome of the
\* command, the prompt is issued again: the loop stops only by exit.
C16_PromptAgain ==
  [][(replRun.pc = "prompt" /\ replRun'.cmd # "exit") => replRun'.pc = "prompt"]_vars


\* C17: every call to the remote model goes through the retry wrapper: a
\* transient error is a failure of the call only after the retries are
\* exhausted.
C17_TransientFailsOnlyExhausted ==
  (chatRun.pc = "failed" /\ isRetryableError(chatRun.error)) =>
     chatRun.sends = GeminiOptions.maxRetries + 1


\* C18: every tool that changes a file's content or existence (the undo tool
\* itself aside) takes a snapshot of the file's state before the change (its
\* content, or null if it did not exist): the change of a file by a tool call
\* comes with a new snapshot of that file holding what the file was.
C18_SnapshotBeforeWrite ==
  [][toolCall'.name # "undo" =>
       \A f \in Files :
          fs'[f] # fs[f] =>
             \E k \in 1..Len(changeLog') :
                /\ changeLog'[k].id >= nextSnapId
                /\ FileOf(changeLog'[k].path) = f
                /\ changeLog'[k].content = (IF fs[f] = NoFile THEN Null ELSE fs[f])]_vars


\* C19: after a tool call that changed the filesystem (wrote or deleted a
\* file, made a directory) the tool result cache is empty.
C19_CacheEmptyAfterMutation ==
  (toolCall.name # "none"
   /\ \E e \in toolCall.effects : e.kind \in {"write", "delete", "mkdir"})
     => toolCache = <<>>


\* C20: for any import graph, cycles included, and any maximum depth,
\* getDependencies and getDependents return, and no file is in the result
\* more than once.
C20_EachFileOnce ==
  depRun.pc = "returned" =>
     \A i, j \in 1..Len(depRun.result) :
        i # j => depRun.result[i] # depRun.result[j]


SnapshotIds(list) == {list[k].id : k \in 1..Len(list)}

\* C22: after any sequence of takeSnapshot and undoLastChange calls the
\* per-path histories and the global log hold the same snapshots: a snapshot
\* an undo removed and restored is in neither, so no later undo restores it
\* again.
C22_StoresConsistent ==
  SnapshotIds(changeLog) = UNION {SnapshotIds(fileHistory[f]) : f \in DOMAIN fileHistory}

\* C23: when the write or the unlink of undoLastChange throws, with or
\* without a path, the call reports failure and the per-path histories and
\* the global log hold exactly the snapshots they held before the call.
C23_FailedUndoKeepsSnapshots ==
  [][(undoCalls' = undoCalls + 1 /\ undoResult'.ioFailed) =>
        /\ ~undoResult'.success
        /\ fileHistory' = fileHistory
        /\ changeLog' = changeLog
        /\ fs' = fs]_vars


\* C24: after stopFileWatcher returns no watcher flush starts or changes the
\* embedding index until the watcher is started again.
C24_NoFlushWhileStopped ==
  watchRun.last \in {"flushStart", "flushWrote"} => watchRun.watcher

\* C25: when the flushes have completed, overlapping or not, the index holds
\* for every path of their batches the chunks of the file as it is, and no
\* chunk they removed: no work of a flush is lost.
C25_FlushesLoseNothing ==
  (/\ watchRun.flushes = <<>> /\ watchRun.pending = <<>> /\ ~watchRun.timer
   /\ watchRun.rebuilds = 0) =>
     \A f \in watchRun.touched :
        {c \in BagToSet(watchRun.indexes[1]) : c.file = f} = chunksOf(watchRun.disk, {f})


\* C26: the agent loop, the generation of a spec stage and /spec next leave
\* the main conversation history as it was.
C26_MainHistoryUntouched ==
  [][convRun'.origin \in {"agent", "specStage", "specNext"} =>
        convRun'.history = convRun.history]_vars

\* a history that starts with a user turn and alternates user and model turns
WellFormed(history) ==
  /\ history # <<>> => history[1].role = "user"
  /\ \A k \in 1..(Len(history) - 1) : history[k].role # history[k + 1].role

\* C27: the history chat() hands to the model session at the start of a turn
\* starts with a user turn and alternates user and model turns.
C27_HandedHistoryWellFormed == WellFormed(convRun.handed)


\* C28: a task that a failed /spec next left in-progress does not stay so:
\* the active spec still shows it pending, so a later /spec next selects it.
C28_FailedTaskSelectedAgain ==
  \A k \in 1..Len(specRun.disk.tasks) :
     specRun.disk.tasks[k] = "in-progress" =>
        /\ specRun.mem.active
        /\ k <= Len(specRun.mem.tasks)
        /\ specRun.mem.tasks[k] = "pending"


\* the working directory itself or a path below it
InsideTree(n) == n = cwd \/ StartsWith(n, cwd \o <<Slash>>)

\* C29: checkPath, and checkFileWrite through it, allow a target path only if
\* it resolves to the working directory or to a path inside its tree.
C29_AllowedOnlyInsideTree ==
  (pathRun.fn # "none" /\ pathRun.result.allowed) =>
     InsideTree(pathResolve(cwd, pathRun.target))


\* C30: every wait between two attempts of withRetry is at most the
\* configured max delay, whichever way the delay was obtained.
C30_WaitsWithinMaxDelay ==
  retryRun.pc # "idle" =>
     \A k \in 1..Len(retryRun.slept) : retryRun.slept[k] <= retryRun.opts.maxDelay


\* C31: once stopProcess has returned success for the process, its status is
\* stopped, whatever events of the child arrive afterwards.
C31_StoppedStaysStopped == procRun.stopped => procRun.status = "stopped"


\* C37: the captured output of a background process never holds more than
\* MAX_OUTPUT_LINES lines, whatever stdout, stderr, exit and error events came.
C37_OutputBounded == procRun.output <= MAX_OUTPUT_LINES


\* C32: after a flush whose batch holds every event so far, the index holds
\* for each file exactly the chunks of its current content, once each:
\* nothing stale, nothing twice, and the files outside the batch as they were.
C32_FlushRechunksOnce ==
  (/\ watchRun.started = 1 /\ watchRun.flushes = <<>> /\ watchRun.last = "flushWrote"
   /\ watchRun.pending = <<>> /\ ~watchRun.timer /\ watchRun.rebuilds = 0) =>
       watchRun.indexes[1] = SetToBag(chunksOf(watchRun.disk, WatchFiles))


\* C38: the events of a burst, each less than the debounce delay after the
\* one before, go into one flush, and a flush starts only when the whole
\* delay has passed since the last event: one flush per burst, never earlier.
C38_BurstIsOneFlush ==
  debRun # NoRun =>
     /\ watchRun.started = debRun.fires
     /\ debRun.fires > 0 =>
           /\ debRun.firedAfter >= DebounceTicks
           /\ debRun.lastBatch = debRun.lastBurst

C38_Witness ==
  /\ debRun # NoRun
  /\ debRun.fires >= 1
  /\ debRun.lastSpaced
  /\ Cardinality(debRun.lastBurst) >= 2
  /\ debRun.lastBatch = debRun.lastBurst


\* C33: a chat turn ends after a bounded number of tool rounds even when
\* every answer of the model holds tool calls: the rounds of a turn stay below
\* MaxToolRounds, the only limit there is, which is not one of the code.
C33_TurnBounded == convRun.pc # "idle" => convRun.rounds < MaxToolRounds


\* C34: no result that stands for an error (not found, failure, denial) is
\* ever in the tool result cache.
C34_NoErrorCached ==
  \A k \in 1..Len(toolCache) : toolCache[k].result.kind = "ok"


\* how many times each item occurs in a list
BagOfItems(items) ==
  [x \in {items[k] : k \in 1..Len(items)} |->
     Cardinality({k \in 1..Len(items) : items[k] = x})]

Descending(items) ==
  \A i, j \in 1..Len(items) : i < j => items[i].priority >= items[j].priority

\* the items of the list that are considered no later than an item of priority p
AtLeast(items, p) == SelectSeq(items, LAMBDA x : x.priority >= p)

\* C35: buildSmartContext takes the candidates by descending priority, puts
\* every candidate in exactly one of included and excluded, excludes an item
\* only when it does not fit on top of what was included, and goes on to the
\* items after an excluded one.
C35_EveryItemDecided ==
  ctxRun.pc = "returned" =>
     LET res == ctxRun.result
     IN /\ BagOfItems(res.included) (+) BagOfItems(res.excluded) = BagOfItems(ctxRun.items)
        /\ Descending(res.included)
        /\ Descending(res.excluded)
        /\ SumTokens(res.included) <= ctxRun.maxTokens
        /\ \A k \in 1..Len(res.excluded) :
              SumTokens(AtLeast(res.included, res.excluded[k].priority))
                 + res.excluded[k].tokens > ctxRun.maxTokens

\* an item was excluded and an item of lower priority included after it
C35_Witness ==
  /\ ctxRun.pc = "returned"
  /\ Len(ctxRun.items) = MaxItems
  /\ \E i \in 1..Len(ctxRun.result.excluded), j \in 1..Len(ctxRun.result.included) :
        /\ ctxRun.result.excluded[i].priority > ctxRun.result.included[j].priority
        /\ ctxRun.result.included[j].tokens > 0
        /\ ctxRun.result.excluded[i].tokens > ctxRun.result.included[j].tokens


\* the last n turns of a history
Suffix(history, n) == SubSeq(history, Len(history) - n + 1, Len(history))

\* the two most recent turns fit the ceiling together
LastTwoFit(history, maxTokens) ==
  Len(history) >= 2 /\ SumTokenCounts(Suffix(history, 2)) <= maxTokens

\* C36: a history within the ceiling is returned as it is; one over the
\* ceiling whose two most recent turns fit is cut to its longest suffix
\* within the ceiling.
C36_LongestFittingSuffix ==
  optRun.pc = "returned" =>
     /\ SumTokenCounts(optRun.history) <= optRun.maxTokens =>
           optRun.result = optRun.history
     /\ (/\ SumTokenCounts(optRun.history) > optRun.maxTokens
         /\ LastTwoFit(optRun.history, optRun.maxTokens)) =>
           \E n \in 2..Len(optRun.history) :
              /\ optRun.result = Suffix(optRun.history, n)
              /\ SumTokenCounts(optRun.result) <= optRun.maxTokens
              /\ \A m \in (n + 1)..Len(optRun.history) :
                    SumTokenCounts(Suffix(optRun.history, m)) > optRun.maxTokens

\* a history over the ceiling was cut to a suffix of three turns or more
C36_Witness ==
  /\ optRun.pc = "returned"
  /\ SumTokenCounts(optRun.history) > optRun.maxTokens
  /\ LastTwoFit(optRun.history, optRun.maxTokens)
  /\ Len(optRun.result) >= 3
  /\ Len(optRun.result) < Len(optRun.history)
  /\ SumTokenCounts(optRun.result) > 0


\* C39: checkAndFix is called at most once in a run of the agent loop, and
\* only when the last step of the plan has just completed: never after an
\* earlier step, never after a step that failed.
C39_DiagnosticsOnceAtEnd ==
  agentRun.pc # "idle" =>
     /\ agentRun.checks <= 1
     /\ agentRun.pc = "fixing" =>
           /\ agentRun.i = Len(agentRun.plan.steps)
           /\ agentRun.plan.steps[agentRun.i].status = "done"
     /\ agentRun.checks = 1 =>
           /\ agentRun.cfg.autoFix
           /\ agentRun.plan.steps # <<>>
           /\ Last(agentRun.plan.steps).status = "done"

\* a run of several steps, with a failed attempt of the last one, that
\* returned after its one call of checkAndFix
C39_Witness ==
  /\ agentRun.pc = "returned"
  /\ agentRun.checks = 1
  /\ Len(agentRun.plan.steps) >= 3
  /\ Last(agentRun.plan.steps).attempts >= 2
  /\ \E k \in 1..Len(agentRun.plan.steps) : agentRun.plan.steps[k].status = "failed"


C40_Bounds ==
  /\ \A f \in Files : Len(fileHistory[f]) <= MAX_HISTORY_PER_FILE
  /\ Len(changeLog) <= MAX_CHANGE_LOG

\* a list after a new element joined it at the end and, if the list was
\* full, its first element left
Evicting(list, x, bound) ==
  (IF Len(list) >= bound THEN Tail(list) ELSE list) \o <<x>>

C40_OldestEvicted ==
  nextSnapId' = nextSnapId + 1 =>
     /\ changeLog' # <<>>
     /\ Last(changeLog').id = nextSnapId
     /\ changeLog' = Evicting(changeLog, Last(changeLog'), MAX_CHANGE_LOG)
     /\ \A f \in Files :
           fileHistory'[f] = IF f = FileOf(Last(changeLog').path)
                             THEN Evicting(fileHistory[f], Last(changeLog'),
                                           MAX_HISTORY_PER_FILE)
                             ELSE fileHistory[f]

\* C40: each per-path history holds at most MAX_HISTORY_PER_FILE snapshots
\* and the global log at most MAX_CHANGE_LOG, and a takeSnapshot call on a
\* full structure evicts its oldest snapshot and keeps the new one.
C40_BoundedFifo == []C40_Bounds /\ [][C40_OldestEvicted]_vars

\* both structures were full and a further snapshot pushed the oldest out
C40_Witness ==
  /\ nextSnapId > MAX_CHANGE_LOG + 1
  /\ Len(changeLog) = MAX_CHANGE_LOG
  /\ changeLog[1].id = nextSnapId - MAX_CHANGE_LOG
  /\ \E f \in Files :
        /\ writesTo[f] >= 1
        /\ Len(fileHistory[f]) = MAX_HISTORY_PER_FILE
        /\ Last(fileHistory[f]).id = nextSnapId - 1
        /\ fileHistory[f][1].id > MAX_HISTORY_PER_FILE + 1

====
